---- MODULE Spec2Model ----
(***************************************************************************)
(* Seekable zstd archives (gzstd): the seek table, its serializer and      *)
(* parser, the frame-partitioning encoder and the random-access decoder.   *)
(*                                                                         *)
(* Bytes are integers 0..255 and byte strings are sequences of them.       *)
(* Go slices are 0-based; sequences here are 1-based, so data[a:b] is      *)
(* SubSeq(data, a+1, b).                                                   *)
(***************************************************************************)
EXTENDS Integers, Sequences, FiniteSets, TLC

(***************************************************************************)
(* Constants of seektable.go                                               *)
(***************************************************************************)
SKIPPABLE_MAGIC_NUMBER == 407710303

SKIPPABLE_HEADER_SIZE == 8

SEEK_TABLE_FOOTER_SIZE == 9

SIZE_PER_FRAME == 17

SEEKABLE_MAX_FRAMES == 134217728

FormatHead == 0

FormatFoot == 1

\* SEEKABLE_MAGIC_NUMBER (0x8F92EAB1) as the four bytes PutUint32 stores;
\* the value itself is above the checker's integer range.
SEEKABLE_MAGIC_LE == <<177, 234, 146, 143>>

ErrFrameIndexTooLarge == "frame index too large"

ErrCorrupted == "corrupted seek table"

ErrInvalidMagic == "invalid magic number"

ErrIntegritySize == "invalid integrity size"

NoErr == "nil"

(***************************************************************************)
(* Bounds of the model                                                     *)
(***************************************************************************)
\* LogFrame calls in one run of the table specification
MaxCalls == 3

\* frames of a table handed to the serializer
MaxSerFrames == 2

\* corruptions applied to one parser input
MaxMut == 2

\* per-frame sizes passed to LogFrame; 300 and 70000 need 2 and 3 bytes
CompSizes == {0, 1, 300}

DecompSizes == {0, 2, 70000}

\* scratch-buffer sizes handed to WriteTo
BufSizes == {1, 2, 5, 9, 17, 20, 100}

\* byte values a corruption stores
MutBytes == {0, 8, 9}

(***************************************************************************)
(* Helpers                                                                 *)
(***************************************************************************)
Min(a, b) == IF a < b THEN a ELSE b

Zeros(n) == [i \in 1..n |-> 0]

\* Go's uint32 and uint64 values at or above 2^31 are kept in two's
\* complement (4294967295 is -1), so that sums and differences wrap as in
\* Go; their order is the unsigned one.
ULt(a, b) == IF (a >= 0) = (b >= 0) THEN a < b ELSE b < 0

UGe(a, b) == ~ULt(a, b)

UGt(a, b) == ULt(b, a)

ULe(a, b) == ~ULt(b, a)

\* binary.LittleEndian.PutUint32
PutUint32(v) ==
  << v % 256, (v \div 256) % 256, (v \div 65536) % 256, (v \div 16777216) % 256 >>

\* binary.LittleEndian.Uint32 (inputs of the model keep the top byte < 128)
Uint32(b) == b[1] + 256 * b[2] + 65536 * b[3] + 16777216 * b[4]

(***************************************************************************)
(* SeekTable.  entries is the Go slice; a table that went through `base`   *)
(* earlier LogFrame(1, 1) calls keeps those leading entries implicit:      *)
(* Go's entries[i] is (i, i) for i < base and entries[i - base + 1] here   *)
(* from base on.  A new table has base 0.                                  *)
(***************************************************************************)
Entry(c, d) == [CompressedOffset |-> c, DecompressedOffset |-> d]

NewSeekTable == [base |-> 0, entries |-> << Entry(0, 0) >>]

\* len(st.entries)
LenEntries(st) == st.base + Len(st.entries)

\* st.entries[i], 0-based
EntryAt(st, i) == IF i < st.base THEN Entry(i, i) ELSE st.entries[i - st.base + 1]

NumFrames(st) == LenEntries(st) - 1

LogFrame_gt(st, compressedSize, decompressedSize) ==
  IF NumFrames(st) > SEEKABLE_MAX_FRAMES
  THEN [st |-> st, err |-> ErrFrameIndexTooLarge]
  ELSE LET last == st.entries[Len(st.entries)]
       IN [st |-> [st EXCEPT !.entries = Append(@,
                      Entry(last.CompressedOffset + compressedSize,
                            last.DecompressedOffset + decompressedSize))],
           err |-> NoErr]

LogFrame_first(st, compressedSize, decompressedSize) ==
  IF NumFrames(st) >= SEEKABLE_MAX_FRAMES
  THEN [st |-> st, err |-> ErrFrameIndexTooLarge]
  ELSE LET last == st.entries[1]
       IN [st |-> [st EXCEPT !.entries = Append(@,
                      Entry(last.CompressedOffset + compressedSize,
                            last.DecompressedOffset + decompressedSize))],
           err |-> NoErr]

LogFrame(st, compressedSize, decompressedSize) ==
  IF NumFrames(st) >= SEEKABLE_MAX_FRAMES
  THEN [st |-> st, err |-> ErrFrameIndexTooLarge]
  ELSE LET last == st.entries[Len(st.entries)]
       IN [st |-> [st EXCEPT !.entries = Append(@,
                      Entry(last.CompressedOffset + compressedSize,
                            last.DecompressedOffset + decompressedSize))],
           err |-> NoErr]

\* the six frame queries return (value, error)
Val(v) == [val |-> v, err |-> NoErr]

Fail(e) == [val |-> 0, err |-> e]

FrameStartComp(st, index) ==
  IF UGe(index, NumFrames(st)) THEN Fail(ErrFrameIndexTooLarge)
  ELSE Val(EntryAt(st, index).CompressedOffset)

FrameStartDecomp(st, index) ==
  IF UGe(index, NumFrames(st)) THEN Fail(ErrFrameIndexTooLarge)
  ELSE Val(EntryAt(st, index).DecompressedOffset)

FrameEndComp_start(st, index) ==
  IF UGe(index, NumFrames(st)) THEN Fail(ErrFrameIndexTooLarge)
  ELSE Val(EntryAt(st, index).CompressedOffset)

FrameEndComp(st, index) ==
  IF UGe(index, NumFrames(st)) THEN Fail(ErrFrameIndexTooLarge)
  ELSE Val(EntryAt(st, index + 1).CompressedOffset)

FrameEndDecomp(st, index) ==
  IF UGe(index, NumFrames(st)) THEN Fail(ErrFrameIndexTooLarge)
  ELSE Val(EntryAt(st, index + 1).DecompressedOffset)

FrameSizeComp(st, index) ==
  IF UGe(index, NumFrames(st)) THEN Fail(ErrFrameIndexTooLarge)
  ELSE Val(EntryAt(st, index + 1).CompressedOffset - EntryAt(st, index).CompressedOffset)

FrameSizeDecomp(st, index) ==
  IF UGe(index, NumFrames(st)) THEN Fail(ErrFrameIndexTooLarge)
  ELSE Val(EntryAt(st, index + 1).DecompressedOffset - EntryAt(st, index).DecompressedOffset)

\* the loop of MaxFrameSizeDecomp from frame i on
RECURSIVE maxSizeLoop(_, _, _)
maxSizeLoop_last(st, i, maxSize) ==
  IF ~ULt(i, NumFrames(st)) THEN maxSize
  ELSE maxSizeLoop(st, i + 1, FrameSizeDecomp(st, i).val)

maxSizeLoop(st, i, maxSize) ==
  IF ~ULt(i, NumFrames(st)) THEN maxSize
  ELSE LET size == FrameSizeDecomp(st, i).val
       IN maxSizeLoop(st, i + 1, IF UGt(size, maxSize) THEN size ELSE maxSize)

\* The implicit frames all have size 1: the iterations over them leave
\* maxSize at 1, and the loop is entered after them.
MaxFrameSizeDecomp(st) ==
  IF st.base > 1 THEN maxSizeLoop(st, st.base - 1, 1) ELSE maxSizeLoop(st, 0, 0)

(***************************************************************************)
(* Serializer                                                              *)
(***************************************************************************)
Frame(c, d) == [CompressedSize |-> c, DecompressedSize |-> d]

\* the uint32 conversions are the identity on the sizes of the model
NewSerializer(st, format) ==
  [frames |-> [i \in 1..(LenEntries(st) - 1) |->
                 Frame(EntryAt(st, i).CompressedOffset - EntryAt(st, i - 1).CompressedOffset,
                       EntryAt(st, i).DecompressedOffset - EntryAt(st, i - 1).DecompressedOffset)],
   frameIndex |-> 0,
   writePos |-> 0,
   format |-> format]

EncodedLen(s) == SKIPPABLE_HEADER_SIZE + SEEK_TABLE_FOOTER_SIZE + Len(s.frames) * SIZE_PER_FRAME

frameSize_slots(s) == Len(s.frames) * SIZE_PER_FRAME

frameSize(s) == SEEK_TABLE_FOOTER_SIZE + Len(s.frames) * SIZE_PER_FRAME

makeIntegrity(s) == PutUint32(Len(s.frames)) \o << 0 >> \o SEEKABLE_MAGIC_LE

\* A WriteTo call in progress: the serializer, buf[0:bufPos] and remaining.
WriteCursor(s, k) == [s |-> s, buf |-> << >>, remaining |-> k]

\* copy(buf[bufPos:], src[from:from+needed]); bufPos, writePos += needed
CopyOut(c, src, from, needed) ==
  [c EXCEPT !.s.writePos = @ + needed,
            !.buf = @ \o SubSeq(src, from + 1, from + needed)]

writeHeader(c) ==
  IF c.s.writePos < SKIPPABLE_HEADER_SIZE
  THEN LET needed == Min(SKIPPABLE_HEADER_SIZE - c.s.writePos, c.remaining)
           header == PutUint32(SKIPPABLE_MAGIC_NUMBER) \o PutUint32(frameSize(c.s))
       IN [CopyOut(c, header, c.s.writePos, needed) EXCEPT !.remaining = @ - needed]
  ELSE c

writeIntegrityHead(c) ==
  IF /\ c.s.format = FormatHead
     /\ c.s.writePos >= SKIPPABLE_HEADER_SIZE
     /\ c.s.writePos < SKIPPABLE_HEADER_SIZE + SEEK_TABLE_FOOTER_SIZE
  THEN LET integrityPos == c.s.writePos - SKIPPABLE_HEADER_SIZE
           needed == Min(SEEK_TABLE_FOOTER_SIZE - integrityPos, c.remaining)
       IN [CopyOut(c, makeIntegrity(c.s), integrityPos, needed) EXCEPT !.remaining = @ - needed]
  ELSE c

startPos(s) ==
  IF s.format = FormatHead THEN SKIPPABLE_HEADER_SIZE + SEEK_TABLE_FOOTER_SIZE
  ELSE SKIPPABLE_HEADER_SIZE

RECURSIVE writeFrames_eager(_)
writeFrames_eager(c) ==
  IF ~(c.s.frameIndex < Len(c.s.frames) /\ c.remaining > 0) THEN c
  ELSE LET frameOffset == c.s.writePos - startPos(c.s)
           framePos == frameOffset % SIZE_PER_FRAME
           frameIdx == frameOffset \div SIZE_PER_FRAME
       IN IF frameIdx >= Len(c.s.frames) THEN c
          ELSE LET frame == c.s.frames[frameIdx + 1]
                   frameData == PutUint32(frame.CompressedSize)
                                  \o PutUint32(frame.DecompressedSize)
                                  \o Zeros(SIZE_PER_FRAME - 8)
                   needed == Min(SIZE_PER_FRAME - framePos, c.remaining)
                   copied == CopyOut(c, frameData, framePos, needed)
               IN writeFrames_eager(
                    [copied EXCEPT !.remaining = @ - needed,
                                   !.s.frameIndex = @ + 1])

RECURSIVE writeFrames(_)
writeFrames(c) ==
  IF ~(c.s.frameIndex < Len(c.s.frames) /\ c.remaining > 0) THEN c
  ELSE LET frameOffset == c.s.writePos - startPos(c.s)
           framePos == frameOffset % SIZE_PER_FRAME
           frameIdx == frameOffset \div SIZE_PER_FRAME
       IN IF frameIdx >= Len(c.s.frames) THEN c
          ELSE LET frame == c.s.frames[frameIdx + 1]
                   frameData == PutUint32(frame.CompressedSize)
                                  \o PutUint32(frame.DecompressedSize)
                                  \o Zeros(SIZE_PER_FRAME - 8)
                   needed == Min(SIZE_PER_FRAME - framePos, c.remaining)
                   copied == CopyOut(c, frameData, framePos, needed)
               IN writeFrames(
                    [copied EXCEPT !.remaining = @ - needed,
                                   !.s.frameIndex =
                                      IF framePos + needed = SIZE_PER_FRAME THEN @ + 1 ELSE @])

writeIntegrityFoot(c) ==
  IF c.s.format = FormatFoot
  THEN LET integrityStart == startPos(c.s) + Len(c.s.frames) * SIZE_PER_FRAME
       IN IF c.s.writePos >= integrityStart /\ c.remaining > 0
          THEN LET integrityPos == c.s.writePos - integrityStart
                   needed == Min(SEEK_TABLE_FOOTER_SIZE - integrityPos, c.remaining)
               IN CopyOut(c, makeIntegrity(c.s), integrityPos, needed)
          ELSE c
  ELSE c

\* WriteTo(buf) with len(buf) = k: the serializer afterwards and buf[0:n]
WriteTo(s, k) ==
  LET c == writeIntegrityFoot(writeFrames(writeIntegrityHead(writeHeader(WriteCursor(s, k)))))
  IN [s |-> c.s, bytes |-> c.buf]

(***************************************************************************)
(* Parser                                                                  *)
(***************************************************************************)
NoTable == [base |-> 0, entries |-> << >>]

ParseOk(t) == [st |-> t, err |-> NoErr]

ParseFail(e) == [st |-> NoTable, err |-> e]

\* len(data) != 8 + 9 + numFrames*17, compared by division: the product is
\* above the checker's integer range for numFrames near SEEKABLE_MAX_FRAMES
SizeMismatch(len, numFrames) ==
  LET slots == len - (SKIPPABLE_HEADER_SIZE + SEEK_TABLE_FOOTER_SIZE)
  IN ~(slots >= 0 /\ slots % SIZE_PER_FRAME = 0 /\ slots \div SIZE_PER_FRAME = numFrames)

\* the slot base: 17 when data[8:17] ends in the seekable magic
DataStart(data) ==
  IF /\ Len(data) > SKIPPABLE_HEADER_SIZE + SEEK_TABLE_FOOTER_SIZE
     /\ SubSeq(data, SKIPPABLE_HEADER_SIZE + 6, SKIPPABLE_HEADER_SIZE + 9) = SEEKABLE_MAGIC_LE
  THEN SKIPPABLE_HEADER_SIZE + SEEK_TABLE_FOOTER_SIZE
  ELSE SKIPPABLE_HEADER_SIZE

RECURSIVE ParseEntries(_, _, _, _, _)
ParseEntries(data, dataStart, numFrames, i, t) ==
  IF i >= numFrames THEN ParseOk(t)
  ELSE LET offset == dataStart + i * SIZE_PER_FRAME
           compSize == Uint32(SubSeq(data, offset + 1, offset + 4))
           decompSize == Uint32(SubSeq(data, offset + 5, offset + 8))
           r == LogFrame(t, compSize, decompSize)
       IN IF r.err # NoErr THEN ParseFail(r.err)
          ELSE ParseEntries(data, dataStart, numFrames, i + 1, r.st)

ParseSeekTable_magicFirst(data) ==
  IF Len(data) < SEEK_TABLE_FOOTER_SIZE THEN ParseFail(ErrCorrupted)
  ELSE LET footer == SubSeq(data, Len(data) - SEEK_TABLE_FOOTER_SIZE + 1, Len(data))
           numFrames == Uint32(SubSeq(footer, 1, 4))
       IN IF SubSeq(data, 1, 4) # PutUint32(SKIPPABLE_MAGIC_NUMBER) THEN ParseFail(ErrInvalidMagic)
          ELSE IF SubSeq(footer, 6, 9) # SEEKABLE_MAGIC_LE THEN ParseFail(ErrInvalidMagic)
          ELSE IF numFrames > SEEKABLE_MAX_FRAMES THEN ParseFail(ErrFrameIndexTooLarge)
          ELSE IF SizeMismatch(Len(data), numFrames) THEN ParseFail(ErrCorrupted)
          ELSE ParseEntries(data, DataStart(data), numFrames, 0, NewSeekTable)

ParseSeekTable(data) ==
  IF Len(data) < SEEK_TABLE_FOOTER_SIZE THEN ParseFail(ErrCorrupted)
  ELSE LET footer == SubSeq(data, Len(data) - SEEK_TABLE_FOOTER_SIZE + 1, Len(data))
           numFrames == Uint32(SubSeq(footer, 1, 4))
       IN IF SubSeq(footer, 6, 9) # SEEKABLE_MAGIC_LE THEN ParseFail(ErrInvalidMagic)
          ELSE IF numFrames > SEEKABLE_MAX_FRAMES THEN ParseFail(ErrFrameIndexTooLarge)
          ELSE IF SizeMismatch(Len(data), numFrames) THEN ParseFail(ErrCorrupted)
          ELSE IF SubSeq(data, 1, 4) # PutUint32(SKIPPABLE_MAGIC_NUMBER) THEN ParseFail(ErrInvalidMagic)
          ELSE ParseEntries(data, DataStart(data), numFrames, 0, NewSeekTable)

\* ParseSeekTableSize returns (size, error)
\* The size is an int of 64 bits.  A frame count above WideFrames gives a
\* size beyond the integers at hand; the size of WideFrames frames stands
\* for it, which is larger than every source of the model as well.
WideFrames == 67108864

ParseSeekTableSize(integrity) ==
  IF Len(integrity) # SEEK_TABLE_FOOTER_SIZE THEN Fail(ErrIntegritySize)
  ELSE IF SubSeq(integrity, 6, 9) # SEEKABLE_MAGIC_LE THEN Fail(ErrInvalidMagic)
  ELSE IF Uint32(SubSeq(integrity, 1, 4)) > SEEKABLE_MAX_FRAMES THEN Fail(ErrFrameIndexTooLarge)
  ELSE Val(SKIPPABLE_HEADER_SIZE + SEEK_TABLE_FOOTER_SIZE
             + Min(Uint32(SubSeq(integrity, 1, 4)), WideFrames) * SIZE_PER_FRAME)

(***************************************************************************)
(* FrameCodec (zstd): EncodeAll turns a non-empty input into one           *)
(* self-contained frame: a magic byte and the length, then the input; at   *)
(* the level SpeedBestCompression an input of consecutive byte values      *)
(* becomes a shorter frame of another magic byte, the length and the first *)
(* byte.  DecodeAll decodes a concatenation of frames into the             *)
(* concatenation of their contents and rejects anything else.              *)
(***************************************************************************)
ErrCodec == "zstd: invalid input"

SpeedDefault == "SpeedDefault"

SpeedBestCompression == "SpeedBestCompression"

\* the bytes first, first + 1, ... of length n
Run(first, n) == [i \in 1..n |-> first + i - 1]

EncodeAll(level, src) ==
  IF src = << >> THEN << >>
  ELSE IF level = SpeedBestCompression /\ src = Run(src[1], Len(src))
  THEN << 41, Len(src), src[1] >>
  ELSE << 40, Len(src) >> \o src

Decoded(b) == [bytes |-> b, err |-> NoErr]

RECURSIVE DecodeAll(_)
DecodeAll(input) ==
  LET after(content, rest) ==
        IF rest.err # NoErr THEN rest ELSE Decoded(content \o rest.bytes)
  IN IF input = << >> THEN Decoded(<< >>)
     ELSE IF Len(input) >= 3 /\ input[1] = 41
     THEN after(Run(input[3], input[2]), DecodeAll(SubSeq(input, 4, Len(input))))
     ELSE IF Len(input) < 2 \/ input[1] # 40 \/ Len(input) < 2 + input[2]
     THEN [bytes |-> << >>, err |-> ErrCodec]
     ELSE after(SubSeq(input, 3, 2 + input[2]),
                DecodeAll(SubSeq(input, 3 + input[2], Len(input))))

(***************************************************************************)
(* Encoder                                                                 *)
(***************************************************************************)
CompressedFrameSize(size) == [kind |-> "CompressedFrameSize", Size |-> size]

UncompressedFrameSize(size) == [kind |-> "UncompressedFrameSize", Size |-> size]

NoPrefix == [present |-> FALSE, bytes |-> << >>]

\* MAX_FRAME_SIZE is 1 << 32, one more than the largest uint32.  The
\* integers at hand end below that, so the encoder carries the width as
\* its field word: FullWord stands for 1 << 32 where no size comes near
\* it, and a narrow word brings the cap within reach.
FullWord == 1073741824

MAX_FRAME_SIZE(e) == e.word

\* uint32(v)
Truncate(e, v) == v % e.word

NewEncoder(policy) ==
  [Level |-> SpeedDefault,
   FramePolicy |-> policy,
   word |-> FullWord,
   seekTable |-> NewSeekTable,
   frameBuffer |-> << >>,
   frameCSize |-> 0,
   frameDSize |-> 0,
   writtenTotal |-> 0,
   currentFrameNum |-> 0]

remainingFrameSize_compressed(e) ==
  LET remaining == e.FramePolicy.Size - e.frameCSize
      maxRemaining == MAX_FRAME_SIZE(e) - e.frameDSize
  IN IF remaining < 0 THEN 0
     ELSE IF remaining > maxRemaining THEN maxRemaining
     ELSE remaining

remainingFrameSize(e) ==
  IF e.FramePolicy.kind = "CompressedFrameSize"
  THEN LET remaining == e.FramePolicy.Size - e.frameCSize
           maxRemaining == MAX_FRAME_SIZE(e) - e.frameDSize
       IN IF remaining < 0 THEN 0
          ELSE IF remaining > maxRemaining THEN maxRemaining
          ELSE remaining
  ELSE IF e.FramePolicy.kind = "UncompressedFrameSize"
  THEN LET remaining == e.FramePolicy.Size - e.frameDSize
       IN IF remaining < 0 THEN 0
          ELSE IF remaining > MAX_FRAME_SIZE(e) THEN MAX_FRAME_SIZE(e)
          ELSE remaining
  ELSE 0

\* isFrameComplete closing a frame only beyond the size of the policy
isFrameComplete_strict(e) ==
  IF e.FramePolicy.kind = "CompressedFrameSize"
  THEN e.frameCSize > e.FramePolicy.Size \/ e.frameDSize >= MAX_FRAME_SIZE(e)
  ELSE IF e.FramePolicy.kind = "UncompressedFrameSize"
  THEN e.frameDSize > Min(e.FramePolicy.Size, MAX_FRAME_SIZE(e))
  ELSE TRUE

isFrameComplete(e) ==
  IF e.FramePolicy.kind = "CompressedFrameSize"
  THEN e.frameCSize >= e.FramePolicy.Size \/ e.frameDSize >= MAX_FRAME_SIZE(e)
  ELSE IF e.FramePolicy.kind = "UncompressedFrameSize"
  THEN e.frameDSize >= Min(e.FramePolicy.Size, MAX_FRAME_SIZE(e))
  ELSE TRUE

ErrWriter == "write failed"

\* The encoder's io.Writer: the bytes it received, and how many more it
\* accepts before a Write fails (space < 0: it never fails).  A Write that
\* does not fit is a short write: the writer keeps what fits and returns
\* the error.  After that it accepts nothing more, or, if transient, works
\* again.
NewWriter(space, transient) == [bytes |-> << >>, space |-> space, transient |-> transient]

\* writer.Write(p): the writer afterwards and the error
WriterWrite(out, p) ==
  IF out.space < 0 \/ Len(p) <= out.space
  THEN [out |-> [out EXCEPT !.bytes = @ \o p,
                           !.space = IF @ < 0 THEN @ ELSE @ - Len(p)],
        err |-> NoErr]
  ELSE [out |-> [out EXCEPT !.bytes = @ \o SubSeq(p, 1, out.space),
                           !.space = IF out.transient THEN -1 ELSE 0],
        err |-> ErrWriter]

\* The encoder and its writer after an operation, and the error returned.
EncOut(e, out, err) == [e |-> e, out |-> out, err |-> err]

EndFrame_logEmpty(e, out) ==
  LET written == WriterWrite(out, e.frameBuffer)
      logged == LogFrame(e.seekTable, Truncate(e, e.frameCSize), Truncate(e, e.frameDSize))
  IN IF written.err # NoErr THEN EncOut(e, written.out, written.err)
     ELSE IF logged.err # NoErr THEN EncOut(e, written.out, logged.err)
     ELSE EncOut([e EXCEPT !.seekTable = logged.st,
                           !.writtenTotal = @ + e.frameCSize,
                           !.currentFrameNum = @ + 1,
                           !.frameBuffer = << >>,
                           !.frameCSize = 0,
                           !.frameDSize = 0],
                 written.out, NoErr)

EndFrame_keepSize(e, out) ==
  IF e.frameDSize = 0 THEN EncOut(e, out, NoErr)
  ELSE LET written == WriterWrite(out, e.frameBuffer)
           logged == LogFrame(e.seekTable, Truncate(e, e.frameCSize), Truncate(e, e.frameDSize))
       IN IF written.err # NoErr THEN EncOut(e, written.out, written.err)
          ELSE IF logged.err # NoErr THEN EncOut(e, written.out, logged.err)
          ELSE EncOut([e EXCEPT !.seekTable = logged.st,
                                !.writtenTotal = @ + e.frameCSize,
                                !.currentFrameNum = @ + 1,
                                !.frameBuffer = << >>,
                                !.frameCSize = 0],
                      written.out, NoErr)

EndFrame(e, out) ==
  IF e.frameDSize = 0 THEN EncOut(e, out, NoErr)
  ELSE LET written == WriterWrite(out, e.frameBuffer)
           logged == LogFrame(e.seekTable, Truncate(e, e.frameCSize), Truncate(e, e.frameDSize))
       IN IF written.err # NoErr THEN EncOut(e, written.out, written.err)
          ELSE IF logged.err # NoErr THEN EncOut(e, written.out, logged.err)
          ELSE EncOut([e EXCEPT !.seekTable = logged.st,
                                !.writtenTotal = @ + e.frameCSize,
                                !.currentFrameNum = @ + 1,
                                !.frameBuffer = << >>,
                                !.frameCSize = 0,
                                !.frameDSize = 0],
                      written.out, NoErr)

WriteStep_countPrefix(e, out, p, prefix) ==
  LET first == IF remainingFrameSize(e) = 0 THEN EndFrame(e, out) ELSE EncOut(e, out, NoErr)
  IN IF first.err # NoErr THEN [e |-> first.e, out |-> first.out, taken |-> 0, err |-> first.err]
     ELSE LET remaining == remainingFrameSize(first.e)
              toWrite == Min(Len(p), remaining)
              chunk == SubSeq(p, 1, toWrite)
              primed == first.e.frameDSize = 0 /\ prefix.present
              compressed == IF primed THEN EncodeAll(first.e.Level, prefix.bytes \o chunk)
                            ELSE EncodeAll(first.e.Level, chunk)
              filled == [first.e EXCEPT !.frameBuffer = @ \o compressed,
                                        !.frameCSize = @ + Len(compressed),
                                        !.frameDSize = @ + toWrite
                                                         + IF primed THEN Len(prefix.bytes) ELSE 0]
              closed == IF isFrameComplete(filled) THEN EndFrame(filled, first.out)
                        ELSE EncOut(filled, first.out, NoErr)
          IN [e |-> closed.e, out |-> closed.out, taken |-> toWrite, err |-> closed.err]

\* One iteration of the loop of WriteWithPrefix over the rest p of the
\* input: the encoder, the writer's bytes, the bytes taken, and the error.
WriteStep(e, out, p, prefix) ==
  LET first == IF remainingFrameSize(e) = 0 THEN EndFrame(e, out) ELSE EncOut(e, out, NoErr)
  IN IF first.err # NoErr THEN [e |-> first.e, out |-> first.out, taken |-> 0, err |-> first.err]
     ELSE LET remaining == remainingFrameSize(first.e)
              toWrite == Min(Len(p), remaining)
              chunk == SubSeq(p, 1, toWrite)
              compressed == IF first.e.frameDSize = 0 /\ prefix.present
                            THEN EncodeAll(first.e.Level, prefix.bytes \o chunk)
                            ELSE EncodeAll(first.e.Level, chunk)
              filled == [first.e EXCEPT !.frameBuffer = @ \o compressed,
                                        !.frameCSize = @ + Len(compressed),
                                        !.frameDSize = @ + toWrite]
              closed == IF isFrameComplete(filled) THEN EndFrame(filled, first.out)
                        ELSE EncOut(filled, first.out, NoErr)
          IN [e |-> closed.e, out |-> closed.out, taken |-> toWrite, err |-> closed.err]

EncoderBufLen == 4096

\* the loop of FinishWithFormat: WriteTo into a 4096-byte buffer until 0;
\* the writer afterwards and the error
RECURSIVE writeSeekTable(_, _)
writeSeekTable(s, out) ==
  LET chunk(r) ==
        IF Len(r.bytes) = 0 THEN [out |-> out, err |-> NoErr]
        ELSE LET written == WriterWrite(out, r.bytes)
             IN IF written.err # NoErr THEN written
                ELSE writeSeekTable(r.s, written.out)
  IN chunk(WriteTo(s, EncoderBufLen))

FinishWithFormat(e, out, format) ==
  LET table(ended) ==
        IF ended.err # NoErr THEN ended
        ELSE LET tail == writeSeekTable(NewSerializer(ended.e.seekTable, format), ended.out)
             IN EncOut(ended.e, tail.out, tail.err)
  IN table(EndFrame(e, out))

(***************************************************************************)
(* The decoder's source: a bytes.Reader over the archive                   *)
(***************************************************************************)
SeekStart == 0

SeekCurrent == 1

SeekEnd == 2

ErrEOF == "EOF"

ErrUnexpectedEOF == "unexpected EOF"

ErrNegativePosition == "negative position"

ErrNoSeekTable == "no seek table found"

ErrWhence == "invalid whence"

\* The source: its position, and the Read and Seek calls made on it.
Source(pos) == [pos |-> pos, reads |-> 0, seeks |-> 0]

\* source.Seek(offset, whence): the source afterwards and the error
SourceSeek(arch, src, offset, whence) ==
  LET abs == IF whence = SeekStart THEN offset
             ELSE IF whence = SeekCurrent THEN src.pos + offset
             ELSE Len(arch) + offset
  IN IF abs < 0 THEN [src |-> [src EXCEPT !.seeks = @ + 1], err |-> ErrNegativePosition]
     ELSE [src |-> [src EXCEPT !.pos = abs, !.seeks = @ + 1], err |-> NoErr]

\* io.ReadFull(source, buf) with len(buf) = n; it reads nothing for n = 0
ReadFull(arch, src, n) ==
  LET avail == IF src.pos >= Len(arch) THEN 0 ELSE Min(n, Len(arch) - src.pos)
  IN [bytes |-> SubSeq(arch, src.pos + 1, src.pos + avail),
      src |-> [src EXCEPT !.pos = @ + avail, !.reads = IF n = 0 THEN @ ELSE @ + 1],
      err |-> IF avail = n THEN NoErr
              ELSE IF avail = 0 THEN ErrEOF
              ELSE ErrUnexpectedEOF]

ReadSeekTableFooter(arch, src) ==
  LET sought == SourceSeek(arch, src, -SEEK_TABLE_FOOTER_SIZE, SeekEnd)
  IN IF sought.err # NoErr THEN [bytes |-> << >>, src |-> sought.src, err |-> sought.err]
     ELSE ReadFull(arch, sought.src, SEEK_TABLE_FOOTER_SIZE)

(***************************************************************************)
(* Decoder                                                                 *)
(***************************************************************************)
DefaultDecoderOptions == [SeekTable |-> NoTable, LowerFrame |-> 0, UpperFrame |-> 0]

NoDec == [seekTable |-> NoTable]

\* a decoder operation: the decoder, its source, the bytes or the offset
\* returned, and the error
DecOut(d, src, bytes, ret, err) ==
  [d |-> d, src |-> src, bytes |-> bytes, ret |-> ret, err |-> err]

\* the table read from the end of the source, NoTable if any step fails,
\* and the source as it is left
LoadSeekTable(arch, src) ==
  LET restore(t, currentPos, from) ==
        [st |-> t, src |-> SourceSeek(arch, from, currentPos, SeekStart).src]
      read(size, currentPos, sought) ==
        IF sought.err # NoErr THEN restore(NoTable, currentPos, sought.src)
        ELSE LET data == ReadFull(arch, sought.src, size)
             IN restore(IF data.err = NoErr THEN ParseSeekTable(data.bytes).st ELSE NoTable,
                        currentPos, data.src)
      table(size, current) ==
        read(size, current.src.pos, SourceSeek(arch, current.src, -size, SeekEnd))
      load(footer) ==
        IF footer.err # NoErr THEN [st |-> NoTable, src |-> footer.src]
        ELSE LET size == ParseSeekTableSize(footer.bytes)
             IN IF size.err # NoErr THEN [st |-> NoTable, src |-> footer.src]
                ELSE table(size.val, SourceSeek(arch, footer.src, 0, SeekCurrent))
  IN load(ReadSeekTableFooter(arch, src))

NewDecoder_emptyTable(arch, opts) ==
  LET start(d, sought) ==
        IF sought.err # NoErr THEN DecOut(NoDec, sought.src, << >>, 0, sought.err)
        ELSE DecOut(d, sought.src, << >>, 0, NoErr)
      open(loaded) ==
        LET d == [options |-> opts,
                  seekTable |-> IF loaded.st = NoTable THEN NewSeekTable ELSE loaded.st,
                  currentFrame |-> opts.LowerFrame,
                  decompressed |-> << >>,
                  lowerFrame |-> opts.LowerFrame,
                  upperFrame |-> opts.UpperFrame,
                  totalRead |-> 0,
                  eofReached |-> FALSE]
        IN start(d, SourceSeek(arch, loaded.src, 0, SeekStart))
  IN open(IF opts.SeekTable # NoTable THEN [st |-> opts.SeekTable, src |-> Source(0)]
          ELSE LoadSeekTable(arch, Source(0)))

NewDecoder(arch, opts) ==
  LET start(d, sought) ==
        IF sought.err # NoErr THEN DecOut(NoDec, sought.src, << >>, 0, sought.err)
        ELSE DecOut(d, sought.src, << >>, 0, NoErr)
      open(loaded) ==
        IF loaded.st = NoTable THEN DecOut(NoDec, loaded.src, << >>, 0, ErrNoSeekTable)
        ELSE LET d == [options |-> opts,
                       seekTable |-> loaded.st,
                       currentFrame |-> opts.LowerFrame,
                       decompressed |-> << >>,
                       lowerFrame |-> opts.LowerFrame,
                       upperFrame |-> IF opts.UpperFrame = 0
                                           \/ UGe(opts.UpperFrame, NumFrames(loaded.st))
                                      THEN NumFrames(loaded.st) - 1
                                      ELSE opts.UpperFrame,
                       totalRead |-> 0,
                       eofReached |-> FALSE]
             IN IF UGt(opts.LowerFrame, 0)
                THEN LET startOffset == FrameStartComp(loaded.st, opts.LowerFrame)
                     IN IF startOffset.err # NoErr
                        THEN DecOut(NoDec, loaded.src, << >>, 0, startOffset.err)
                        ELSE start(d, SourceSeek(arch, loaded.src, startOffset.val, SeekStart))
                ELSE start(d, SourceSeek(arch, loaded.src, 0, SeekStart))
  IN open(IF opts.SeekTable # NoTable THEN [st |-> opts.SeekTable, src |-> Source(0)]
          ELSE LoadSeekTable(arch, Source(0)))

SetLowerFrame(d, frame) ==
  [d EXCEPT !.lowerFrame = frame,
            !.currentFrame = IF ULt(@, frame) THEN frame ELSE @]

SetUpperFrame(d, frame) ==
  [d EXCEPT !.upperFrame = IF UGe(frame, NumFrames(d.seekTable))
                           THEN NumFrames(d.seekTable) - 1
                           ELSE frame]

decompressNextFrame_exclusive(d, arch, src, prefix) ==
  LET store(decoded, readSrc) ==
        IF decoded.err # NoErr THEN DecOut(d, readSrc, << >>, 0, decoded.err)
        ELSE DecOut([d EXCEPT !.decompressed = @ \o decoded.bytes,
                              !.currentFrame = @ + 1],
                    readSrc, << >>, 0, NoErr)
      fallback(primed, compressed) ==
        IF primed.err # NoErr THEN DecodeAll(compressed) ELSE primed
      decode(read) ==
        IF read.err # NoErr THEN DecOut(d, read.src, << >>, 0, read.err)
        ELSE IF prefix.present /\ d.currentFrame = d.lowerFrame
        THEN store(fallback(DecodeAll(prefix.bytes \o read.bytes), read.bytes), read.src)
        ELSE store(DecodeAll(read.bytes), read.src)
  IN IF UGe(d.currentFrame, d.upperFrame) THEN DecOut(d, src, << >>, 0, ErrEOF)
     ELSE LET size == FrameSizeComp(d.seekTable, d.currentFrame)
          IN IF size.err # NoErr THEN DecOut(d, src, << >>, 0, size.err)
             ELSE decode(ReadFull(arch, src, size.val))

decompressNextFrame(d, arch, src, prefix) ==
  LET store(decoded, readSrc) ==
        IF decoded.err # NoErr THEN DecOut(d, readSrc, << >>, 0, decoded.err)
        ELSE DecOut([d EXCEPT !.decompressed = @ \o decoded.bytes,
                              !.currentFrame = @ + 1],
                    readSrc, << >>, 0, NoErr)
      fallback(primed, compressed) ==
        IF primed.err # NoErr THEN DecodeAll(compressed) ELSE primed
      decode(read) ==
        IF read.err # NoErr THEN DecOut(d, read.src, << >>, 0, read.err)
        ELSE IF prefix.present /\ d.currentFrame = d.lowerFrame
        THEN store(fallback(DecodeAll(prefix.bytes \o read.bytes), read.bytes), read.src)
        ELSE store(DecodeAll(read.bytes), read.src)
  IN IF UGt(d.currentFrame, d.upperFrame) THEN DecOut(d, src, << >>, 0, ErrEOF)
     ELSE LET size == FrameSizeComp(d.seekTable, d.currentFrame)
          IN IF size.err # NoErr THEN DecOut(d, src, << >>, 0, size.err)
             ELSE decode(ReadFull(arch, src, size.val))

\* the loop of ReadWithPrefix with len(p) = k; acc is p[:totalRead]
RECURSIVE readLoop(_, _, _, _, _, _)
readLoop(d, arch, src, k, prefix, acc) ==
  LET refilled(next) ==
        IF next.err = NoErr THEN readLoop(next.d, arch, next.src, k, prefix, acc)
        ELSE IF next.err = ErrEOF
        THEN DecOut([next.d EXCEPT !.eofReached = TRUE], next.src, acc, Len(acc),
                    IF Len(acc) > 0 THEN NoErr ELSE ErrEOF)
        ELSE DecOut(next.d, next.src, acc, Len(acc), next.err)
  IN IF ~(Len(acc) < k /\ ~d.eofReached) THEN DecOut(d, src, acc, Len(acc), NoErr)
     ELSE IF Len(d.decompressed) > 0
     THEN LET n == Min(k - Len(acc), Len(d.decompressed))
          IN readLoop([d EXCEPT !.decompressed = SubSeq(@, n + 1, Len(@)),
                                !.totalRead = @ + n],
                      arch, src, k, prefix, acc \o SubSeq(d.decompressed, 1, n))
     ELSE refilled(decompressNextFrame(d, arch, src, prefix))

ReadWithPrefix_noSticky(d, arch, src, k, prefix) ==
  readLoop(d, arch, src, k, prefix, << >>)

\* ReadWithPrefix returning as soon as it has drained residual bytes
ReadWithPrefix_residueOnly(d, arch, src, k, prefix) ==
  IF d.eofReached THEN DecOut(d, src, << >>, 0, ErrEOF)
  ELSE IF Len(d.decompressed) > 0
  THEN LET n == Min(k, Len(d.decompressed))
       IN DecOut([d EXCEPT !.decompressed = SubSeq(@, n + 1, Len(@)),
                           !.totalRead = @ + n],
                 src, SubSeq(d.decompressed, 1, n), n, NoErr)
  ELSE readLoop(d, arch, src, k, prefix, << >>)

ReadWithPrefix(d, arch, src, k, prefix) ==
  IF d.eofReached THEN DecOut(d, src, << >>, 0, ErrEOF)
  ELSE readLoop(d, arch, src, k, prefix, << >>)

Read(d, arch, src, k) == ReadWithPrefix(d, arch, src, k, NoPrefix)

mustFrameEndDecomp(d, frame) == FrameEndDecomp(d.seekTable, frame).val

RECURSIVE findFrameSearch(_, _, _, _)
findFrameSearch_inclusive(d, offset, low, high) ==
  IF ~ULt(low + 1, high)
  THEN IF ULt(offset, mustFrameEndDecomp(d, low)) THEN low ELSE high
  ELSE LET mid == (low + high) \div 2
       IN IF ULe(offset, mustFrameEndDecomp(d, mid))
          THEN findFrameSearch(d, offset, low, mid)
          ELSE findFrameSearch(d, offset, mid, high)

findFrameSearch(d, offset, low, high) ==
  IF ~ULt(low + 1, high)
  THEN IF ULt(offset, mustFrameEndDecomp(d, low)) THEN low ELSE high
  ELSE LET mid == (low + high) \div 2
       IN IF ULt(offset, mustFrameEndDecomp(d, mid))
          THEN findFrameSearch(d, offset, low, mid)
          ELSE findFrameSearch(d, offset, mid, high)

findFrameAtOffset(d, offset) ==
  IF offset = 0 THEN 0
  ELSE IF UGe(offset, mustFrameEndDecomp(d, NumFrames(d.seekTable) - 1))
  THEN NumFrames(d.seekTable) - 1
  ELSE findFrameSearch(d, offset, 0, NumFrames(d.seekTable))

SkipBufLen == 4096

\* the loop of Seek that reads and discards skipBytes bytes
RECURSIVE skipLoop(_, _, _, _)
skipLoop(d, arch, src, skipBytes) ==
  LET skipped(r) ==
        IF r.err # NoErr THEN DecOut(r.d, r.src, << >>, 0, r.err)
        ELSE skipLoop(r.d, arch, r.src, skipBytes - r.ret)
  IN IF ~UGt(skipBytes, 0) THEN DecOut(d, src, << >>, d.totalRead, NoErr)
     ELSE skipped(Read(d, arch, src,
                       IF UGt(skipBytes, SkipBufLen) THEN SkipBufLen ELSE skipBytes))

\* Seek from the search of the target frame on
seekTo(d, arch, src, target) ==
  LET position(targetOffset, targetFrame) ==
        LET moved(reset, startDecomp, sought) ==
              IF sought.err # NoErr THEN DecOut(d, sought.src, << >>, 0, sought.err)
              ELSE IF UGt(targetOffset, startDecomp)
              THEN skipLoop(reset, arch, sought.src, targetOffset - startDecomp)
              ELSE DecOut(reset, sought.src, << >>, startDecomp, NoErr)
            frameStartDecomp == FrameStartDecomp(d.seekTable, targetFrame)
            frameStartComp == FrameStartComp(d.seekTable, targetFrame)
            reset == [d EXCEPT !.currentFrame = targetFrame,
                               !.decompressed = << >>,
                               !.totalRead = frameStartDecomp.val,
                               !.eofReached = FALSE]
        IN IF frameStartDecomp.err # NoErr THEN DecOut(d, src, << >>, 0, frameStartDecomp.err)
           ELSE IF frameStartComp.err # NoErr THEN DecOut(d, src, << >>, 0, frameStartComp.err)
           ELSE moved(reset, frameStartDecomp.val,
                      SourceSeek(arch, src, frameStartComp.val, SeekStart))
      capped(targetOffset, targetFrame) ==
        position(targetOffset,
                 IF UGt(targetFrame, d.upperFrame) THEN d.upperFrame ELSE targetFrame)
      raised(targetOffset, targetFrame) ==
        capped(targetOffset,
               IF ULt(targetFrame, d.lowerFrame) THEN d.lowerFrame ELSE targetFrame)
  IN raised(target, findFrameAtOffset(d, target))

\* Seek taking every other whence for io.SeekStart
Seek_anyWhence(d, arch, src, offset, whence) ==
  LET total == FrameEndDecomp(d.seekTable, NumFrames(d.seekTable) - 1)
  IN IF whence = SeekEnd /\ total.err # NoErr THEN DecOut(d, src, << >>, 0, total.err)
     ELSE seekTo(d, arch, src,
                 IF whence = SeekCurrent THEN d.totalRead + offset
                 ELSE IF whence = SeekEnd THEN total.val + offset
                 ELSE offset)

Seek(d, arch, src, offset, whence) ==
  LET total == FrameEndDecomp(d.seekTable, NumFrames(d.seekTable) - 1)
  IN IF whence \notin {SeekStart, SeekCurrent, SeekEnd} THEN DecOut(d, src, << >>, 0, ErrWhence)
     ELSE IF whence = SeekEnd /\ total.err # NoErr THEN DecOut(d, src, << >>, 0, total.err)
     ELSE seekTo(d, arch, src,
                 IF whence = SeekStart THEN offset
                 ELSE IF whence = SeekCurrent THEN d.totalRead + offset
                 ELSE total.val + offset)

(***************************************************************************)
(* State                                                                   *)
(***************************************************************************)
VARIABLES
  st,      \* a SeekTable under test
  log,     \* the LogFrame calls made on st: arguments, error, frames before
  q,       \* the last frame query: index and the results of the queries
  look,    \* the last findFrameAtOffset call on st: offset and frame returned
  ser,     \* a Serializer of st, NoSer before NewSerializer
  image,   \* the bytes the WriteTo calls produced, then the parser's input
  last,    \* the last WriteTo call: buffer size, return value, cursor before
  nmut,    \* corruptions applied to image
  parsed,  \* the result of ParseSeekTable(image), NoParse before
  enc,     \* the Encoder
  w,       \* the encoder's writer; its bytes are then the archive
  call,    \* the WriteWithPrefix call in progress: rest of p, totalWritten,
           \* and whether it has made an odd number of iterations
  encRet,  \* what the last encoder operation returned
  fin,     \* the format of the Finish that returned, NotFinished before
  payload, \* the bytes handed to Write so far and not refused by a failed call
  hist,    \* whether EndFrame was called, whether an encoder call failed,
           \* whether a WriteWithPrefix call gave a prefix, and the
           \* seek-table bytes handed to the writer
  dec,     \* the Decoder, NoDec before NewDecoder
  srcPos,  \* the decoder's source: its position, and the Read and Seek calls
           \* the last decoder operation made on it
  decRet,  \* what the last decoder operation returned
  got,     \* the bytes the Reads delivered since NewDecoder or the last Seek
  sought   \* the last Seek: its target and whether it lies in [0, |S|]; and
           \* whether a ReadWithPrefix call gave a prefix

tableVars == << st, log, q, look >>

serVars == << ser, image, last, nmut, parsed >>

encVars == << enc, w, call, encRet, fin, payload, hist >>

decVars == << dec, srcPos, decRet, got, sought >>

vars == << st, log, q, look, ser, image, last, nmut, parsed,
           enc, w, call, encRet, fin, payload, hist, dec, srcPos, decRet, got, sought >>

NoQuery == [index |-> -1]

NoSer == [format |-> -1]

NoCall == [k |-> 0, n |-> -1, before |-> 0]

NoParse == [err |-> "not parsed"]

NoLook == [done |-> FALSE, offset |-> 0, frame |-> 0]

TableIdle == st = NewSeekTable /\ log = << >> /\ q = NoQuery /\ look = NoLook

SerIdle == ser = NoSer /\ image = << >> /\ last = NoCall /\ nmut = 0 /\ parsed = NoParse

NotFinished == -1

NoWrite ==
  [active |-> FALSE, p |-> << >>, prefix |-> NoPrefix, totalWritten |-> 0, len |-> 0,
   odd |-> FALSE]

NoHist == [explicitEnd |-> FALSE, failed |-> FALSE, prefixed |-> FALSE, tableBytes |-> 0]

\* a writer that never fails
SoundWriter == NewWriter(-1, FALSE)

NoRet == [op |-> "none", n |-> 0, err |-> NoErr]

NoSeek == [done |-> FALSE, target |-> 0, valid |-> FALSE, primed |-> FALSE]

EncIdle ==
  /\ enc = NewEncoder(CompressedFrameSize(1))
  /\ w = SoundWriter
  /\ call = NoWrite
  /\ encRet = NoRet
  /\ fin = NotFinished
  /\ payload = << >>
  /\ hist = NoHist

DecIdle == dec = NoDec /\ srcPos = Source(0) /\ decRet = NoRet /\ got = << >> /\ sought = NoSeek

(***************************************************************************)
(* Specification of the seek table: LogFrame and the frame queries, on a   *)
(* new table and on one that already holds SEEKABLE_MAX_FRAMES - 2 frames  *)
(***************************************************************************)
PreloadedTable ==
  [base |-> SEEKABLE_MAX_FRAMES - 2,
   entries |-> << Entry(SEEKABLE_MAX_FRAMES - 2, SEEKABLE_MAX_FRAMES - 2) >>]

InitTable ==
  /\ st \in {NewSeekTable, PreloadedTable}
  /\ log = << >>
  /\ q = NoQuery
  /\ look = NoLook
  /\ SerIdle
  /\ EncIdle
  /\ DecIdle

DoLogFrame(c, d) ==
  /\ Len(log) < MaxCalls
  /\ LET r == LogFrame(st, c, d)
     IN /\ st' = r.st
        /\ log' = Append(log, [c |-> c, d |-> d, err |-> r.err,
                               n |-> NumFrames(st), kept |-> (r.st = st)])
  /\ q' = NoQuery
  /\ look' = NoLook
  /\ UNCHANGED << serVars, encVars, decVars >>

\* -1 is the index 4294967295
QueryIdx == {i \in {-1, 0, 1, 2} \cup {NumFrames(st) + k : k \in -3..1} : i >= -1}

DoQuery(i) ==
  /\ q' = [index |-> i,
           startComp |-> FrameStartComp(st, i),
           startDecomp |-> FrameStartDecomp(st, i),
           endComp |-> FrameEndComp(st, i),
           endDecomp |-> FrameEndDecomp(st, i),
           sizeComp |-> FrameSizeComp(st, i),
           sizeDecomp |-> FrameSizeDecomp(st, i),
           nextStartComp |-> FrameStartComp(st, i + 1),
           nextStartDecomp |-> FrameStartDecomp(st, i + 1),
           maxSizeDecomp |-> MaxFrameSizeDecomp(st)]
  /\ look' = NoLook
  /\ UNCHANGED << st, log >>
  /\ UNCHANGED << serVars, encVars, decVars >>

\* offsets handed to findFrameAtOffset: around every entry the model keeps
\* explicitly, the first ones, and one in the middle of the implicit frames
LookOffsets ==
  {o \in {0, 1, 3, st.base \div 2}
          \cup {st.entries[j].DecompressedOffset + k : j \in 1..Len(st.entries), k \in -1..1} :
     o >= 0}

\* findFrameAtOffset of a decoder whose table is st
DoFind(offset) ==
  /\ look' = [done |-> TRUE, offset |-> offset,
              frame |-> findFrameAtOffset([seekTable |-> st], offset)]
  /\ q' = NoQuery
  /\ UNCHANGED << st, log >>
  /\ UNCHANGED << serVars, encVars, decVars >>

NextTable ==
  \/ \E c \in CompSizes, d \in DecompSizes : DoLogFrame(c, d)
  \/ \E i \in QueryIdx : DoQuery(i)
  \/ \E offset \in LookOffsets : DoFind(offset)

SpecTable == InitTable /\ [][NextTable]_vars

(***************************************************************************)
(* Specification of the codec of the table: build a table, serialize it    *)
(* in chunks, corrupt the image, parse it                                  *)
(***************************************************************************)
InitSer ==
  /\ TableIdle
  /\ SerIdle
  /\ EncIdle
  /\ DecIdle

SerSizes == { << 0, 0 >>, << 1, 2 >>, << 300, 70000 >> }

SerLogFrame(c, d) ==
  /\ ser = NoSer
  /\ NumFrames(st) < MaxSerFrames
  /\ st' = LogFrame(st, c, d).st
  /\ UNCHANGED << log, q, look >>
  /\ UNCHANGED << serVars, encVars, decVars >>

SerNew(format) ==
  /\ ser = NoSer
  /\ ser' = NewSerializer(st, format)
  /\ UNCHANGED << image, last, nmut, parsed >>
  /\ UNCHANGED << tableVars, encVars, decVars >>

SerDone == ser # NoSer /\ last.n = 0

SerWriteTo(k) ==
  /\ ser # NoSer
  /\ ~SerDone
  /\ LET r == WriteTo(ser, k)
     IN /\ ser' = r.s
        /\ image' = image \o r.bytes
        /\ last' = [k |-> k, n |-> Len(r.bytes), before |-> ser.writePos]
  /\ UNCHANGED << nmut, parsed >>
  /\ UNCHANGED << tableVars, encVars, decVars >>

\* offsets the parser inspects: data[0], data[16], and in the last nine
\* bytes the low and high byte of the frame count and the end of the magic
MutPositions ==
  {i \in {1, 17, Len(image) - 8, Len(image) - 5, Len(image)} : i >= 1 /\ i <= Len(image)}

MutSet(i, v) ==
  /\ SerDone
  /\ nmut < MaxMut
  /\ image[i] # v
  /\ image' = [image EXCEPT ![i] = v]
  /\ nmut' = nmut + 1
  /\ parsed' = NoParse
  /\ UNCHANGED << ser, last >>
  /\ UNCHANGED << tableVars, encVars, decVars >>

MutDropFront(j) ==
  /\ SerDone
  /\ nmut < MaxMut
  /\ j >= 1 /\ j < Len(image)
  /\ image' = SubSeq(image, j + 1, Len(image))
  /\ nmut' = nmut + 1
  /\ parsed' = NoParse
  /\ UNCHANGED << ser, last >>
  /\ UNCHANGED << tableVars, encVars, decVars >>

MutDropBack(j) ==
  /\ SerDone
  /\ nmut < MaxMut
  /\ j >= 1 /\ j < Len(image)
  /\ image' = SubSeq(image, 1, Len(image) - j)
  /\ nmut' = nmut + 1
  /\ parsed' = NoParse
  /\ UNCHANGED << ser, last >>
  /\ UNCHANGED << tableVars, encVars, decVars >>

SerParse ==
  /\ SerDone
  /\ parsed = NoParse
  /\ parsed' = ParseSeekTable(image)
  /\ UNCHANGED << ser, image, last, nmut >>
  /\ UNCHANGED << tableVars, encVars, decVars >>

NextSer ==
  \/ \E p \in SerSizes : SerLogFrame(p[1], p[2])
  \/ \E f \in {FormatFoot, FormatHead} : SerNew(f)
  \/ \E k \in BufSizes : SerWriteTo(k)
  \/ \E i \in MutPositions, v \in MutBytes : MutSet(i, v)
  \/ \E j \in {1, 8, Len(image) - 9, Len(image) - 5} : MutDropFront(j)
  \/ \E j \in {1, 9, 17} : MutDropBack(j)
  \/ SerParse

SpecSer == InitSer /\ [][NextSer]_vars

(***************************************************************************)
(* Specification of the table load: NewDecoder on a source that ends with  *)
(* a serialized table, intact or corrupted, with or without a table given  *)
(* in the options                                                          *)
(***************************************************************************)
\* bytes of the source before the table
Leads == {<< >>, << 40, 1, 65 >>}

\* the SeekTable option: none, or the table that was serialized
Overrides == {NoTable, st}

\* NewDecoder(source, opts); w keeps the bytes of the source
DecOpen(lead, table) ==
  /\ SerDone
  /\ decRet = NoRet
  /\ \E r \in {NewDecoder(lead \o image,
                           [SeekTable |-> table, LowerFrame |-> 0, UpperFrame |-> 0])} :
        /\ dec' = r.d
        /\ srcPos' = r.src
        /\ decRet' = [op |-> IF table = NoTable THEN "new" ELSE "newWithTable",
                      n |-> 0, err |-> r.err]
  /\ w' = [w EXCEPT !.bytes = lead \o image]
  /\ UNCHANGED << enc, call, encRet, fin, payload, hist, got, sought >>
  /\ UNCHANGED << tableVars, serVars >>

NextOpen ==
  \/ \E p \in SerSizes : SerLogFrame(p[1], p[2])
  \/ \E f \in {FormatFoot, FormatHead} : SerNew(f)
  \/ \E k \in {9, 100} : SerWriteTo(k)
  \/ \E i \in MutPositions, v \in MutBytes : MutSet(i, v)
  \/ \E j \in {1, 8, Len(image) - 9, Len(image) - 5} : MutDropFront(j)
  \/ \E j \in {1, 9, 17} : MutDropBack(j)
  \/ \E lead \in Leads, table \in Overrides : DecOpen(lead, table)

SpecOpen == InitSer /\ [][NextOpen]_vars

(***************************************************************************)
(* Specification of the archive: an encoder with a frame policy takes      *)
(* Write, EndFrame and Finish calls; a decoder is then opened on the bytes *)
(* written and takes Read and Seek calls                                   *)
(***************************************************************************)
\* total length of the input
MaxPayload == 4

\* bytes of the frame buffer up to which a Write call is followed
MaxBuffered == 16

\* policy sizes; with size 0 no chunk can be taken
PolicySizes == {0, 1, 2, 4}

Policies ==
  {CompressedFrameSize(n) : n \in PolicySizes} \cup {UncompressedFrameSize(n) : n \in PolicySizes}

\* lengths of the buffers handed to Read
ReadSizes == {1, 2, 5}

\* byte i of the input
Data(i) == 64 + i

InitArchive ==
  /\ TableIdle
  /\ SerIdle
  /\ enc \in {NewEncoder(policy) : policy \in Policies}
  /\ w = SoundWriter
  /\ call = NoWrite
  /\ encRet = NoRet
  /\ fin = NotFinished
  /\ payload = << >>
  /\ hist = NoHist
  /\ DecIdle

EncCallable == ~call.active /\ fin = NotFinished

\* WriteWithPrefix(p, prefix) with the next n bytes of the input (Write(p)
\* is the call with NoPrefix), an input of limit bytes at most, called
\* when the caller is ready: enters the loop
EncWriteWhen(ready, limit, n, prefix) ==
  /\ ready
  /\ Len(payload) + n <= limit
  /\ LET p == [i \in 1..n |-> Data(Len(payload) + i)]
     IN /\ call' = [active |-> TRUE, p |-> p, prefix |-> prefix, totalWritten |-> 0,
                    len |-> n, odd |-> FALSE]
        /\ payload' = payload \o p
  /\ hist' = [hist EXCEPT !.prefixed = @ \/ prefix.present]
  /\ UNCHANGED << enc, w, encRet, fin >>
  /\ UNCHANGED << tableVars, serVars, decVars >>

\* the same called before Finish
EncWriteUpTo(limit, n, prefix) == EncWriteWhen(EncCallable, limit, n, prefix)

EncWrite(n, prefix) == EncWriteUpTo(MaxPayload, n, prefix)

\* the loop test of WriteWithPrefix and one iteration, or the return; the
\* model stops following a call whose frame buffer passed MaxBuffered bytes
EncWriteStep ==
  /\ call.active
  /\ Len(enc.frameBuffer) <= MaxBuffered
  /\ IF Len(call.p) > 0
     THEN LET r == WriteStep(enc, w, call.p, call.prefix)
          IN /\ enc' = r.e
             /\ w' = r.out
             /\ IF r.err # NoErr
                THEN /\ call' = NoWrite
                     /\ encRet' = [op |-> "write", n |-> call.totalWritten + r.taken, err |-> r.err]
                     /\ payload' = SubSeq(payload, 1, Len(payload) - (Len(call.p) - r.taken))
                     /\ hist' = [hist EXCEPT !.failed = TRUE]
                ELSE /\ call' = [call EXCEPT !.p = SubSeq(@, r.taken + 1, Len(@)),
                                             !.totalWritten = @ + r.taken,
                                             !.odd = ~@]
                     /\ UNCHANGED << encRet, payload, hist >>
     ELSE /\ call' = NoWrite
          /\ encRet' = [op |-> "write", n |-> call.totalWritten, err |-> NoErr]
          /\ UNCHANGED << enc, w, payload, hist >>
  /\ UNCHANGED fin
  /\ UNCHANGED << tableVars, serVars, decVars >>

EncEndFrameWhen(ready) ==
  /\ ready
  /\ LET r == EndFrame(enc, w)
     IN /\ enc' = r.e
        /\ w' = r.out
        /\ encRet' = [op |-> "endframe", n |-> 0, err |-> r.err]
        /\ hist' = [hist EXCEPT !.explicitEnd = TRUE, !.failed = @ \/ r.err # NoErr]
  /\ UNCHANGED << call, fin, payload >>
  /\ UNCHANGED << tableVars, serVars, decVars >>

\* EndFrame called before Finish
EncEndFrame == EncEndFrameWhen(EncCallable)

EncFinishWhen(ready, format) ==
  /\ ready
  /\ LET r == FinishWithFormat(enc, w, format)
     IN /\ enc' = r.e
        /\ w' = r.out
        /\ encRet' = [op |-> "finish", n |-> 0, err |-> r.err]
        /\ fin' = IF r.err = NoErr THEN format ELSE fin
        /\ hist' = [hist EXCEPT !.failed = @ \/ r.err # NoErr,
                                !.tableBytes = @ + Len(r.out.bytes)
                                                 - Len(EndFrame(enc, w).out.bytes)]
  /\ UNCHANGED << call, payload >>
  /\ UNCHANGED << tableVars, serVars, decVars >>

\* FinishWithFormat called once
EncFinish(format) == EncFinishWhen(EncCallable, format)

DecNew(opts) ==
  /\ fin # NotFinished
  /\ decRet = NoRet
  /\ \E r \in {NewDecoder(w.bytes, opts)} :
        /\ dec' = r.d
        /\ srcPos' = r.src
        /\ decRet' = [op |-> "new", n |-> 0, err |-> r.err]
  /\ UNCHANGED << got, sought >>
  /\ UNCHANGED << tableVars, serVars, encVars >>

DecReadWithPrefix(k, prefix) ==
  /\ dec # NoDec
  /\ \E r \in {ReadWithPrefix(dec, w.bytes, Source(srcPos.pos), k, prefix)} :
        /\ dec' = r.d
        /\ srcPos' = r.src
        /\ decRet' = [op |-> "read", n |-> r.ret, err |-> r.err]
        /\ got' = got \o r.bytes
  /\ sought' = [sought EXCEPT !.primed = @ \/ prefix.present]
  /\ UNCHANGED << tableVars, serVars, encVars >>

DecRead(k) == DecReadWithPrefix(k, NoPrefix)

\* the offset the whence rule resolves to
SeekTarget(offset, whence) ==
  IF whence = SeekStart THEN offset
  ELSE IF whence = SeekCurrent THEN dec.totalRead + offset
  ELSE Len(payload) + offset

DecSeek(offset, whence) ==
  /\ dec # NoDec
  /\ \E r \in {Seek(dec, w.bytes, Source(srcPos.pos), offset, whence)} :
        /\ dec' = r.d
        /\ srcPos' = r.src
        /\ decRet' = [op |-> "seek", n |-> r.ret, err |-> r.err]
  /\ got' = << >>
  /\ sought' = [done |-> TRUE,
                target |-> SeekTarget(offset, whence),
                valid |-> SeekTarget(offset, whence) \in 0..Len(payload),
                primed |-> sought.primed]
  /\ UNCHANGED << tableVars, serVars, encVars >>

NextArchive ==
  \/ \E n \in 0..MaxPayload : EncWrite(n, NoPrefix)
  \/ EncWriteStep
  \/ EncEndFrame
  \/ \E f \in {FormatFoot, FormatHead} : EncFinish(f)
  \/ DecNew(DefaultDecoderOptions)
  \/ \E k \in ReadSizes : DecRead(k)
  \/ \E offset \in (-MaxPayload)..MaxPayload, whence \in {SeekStart, SeekCurrent, SeekEnd} :
       DecSeek(offset, whence)

SpecArchive == InitArchive /\ [][NextArchive]_vars

(***************************************************************************)
(* Specification of the frame range: the archive is opened with the        *)
(* options LowerFrame and UpperFrame and read to the end                   *)
(***************************************************************************)
\* frame indexes given as options; an archive of the model has up to
\* MaxPayload frames
RangeFrames == 0..MaxPayload

RangeOptions ==
  {[SeekTable |-> NoTable, LowerFrame |-> l, UpperFrame |-> u] : l, u \in RangeFrames}

NextRange ==
  \/ \E n \in 0..MaxPayload : EncWrite(n, NoPrefix)
  \/ EncWriteStep
  \/ EncEndFrame
  \/ \E f \in {FormatFoot, FormatHead} : EncFinish(f)
  \/ \E opts \in RangeOptions : DecNew(opts)
  \/ \E k \in ReadSizes : DecRead(k)

SpecRange == InitArchive /\ [][NextRange]_vars

(***************************************************************************)
(* Specification of the frame window: the archive is opened with the       *)
(* default options, and SetLowerFrame and SetUpperFrame calls come between *)
(* the Reads                                                               *)
(***************************************************************************)
\* arguments of SetLowerFrame and SetUpperFrame; -1 is 4294967295
BoundFrames == {0, 1, -1}

DecSetLowerFrame(frame) ==
  /\ dec # NoDec
  /\ dec' = SetLowerFrame(dec, frame)
  /\ srcPos' = Source(srcPos.pos)
  /\ decRet' = [op |-> "setLowerFrame", n |-> frame, err |-> NoErr]
  /\ got' = << >>
  /\ UNCHANGED sought
  /\ UNCHANGED << tableVars, serVars, encVars >>

DecSetUpperFrame(frame) ==
  /\ dec # NoDec
  /\ dec' = SetUpperFrame(dec, frame)
  /\ srcPos' = Source(srcPos.pos)
  /\ decRet' = [op |-> "setUpperFrame", n |-> frame, err |-> NoErr]
  /\ got' = << >>
  /\ UNCHANGED sought
  /\ UNCHANGED << tableVars, serVars, encVars >>

NextBounds ==
  \/ \E n \in 0..MaxPayload : EncWrite(n, NoPrefix)
  \/ EncWriteStep
  \/ EncEndFrame
  \/ \E f \in {FormatFoot, FormatHead} : EncFinish(f)
  \/ DecNew(DefaultDecoderOptions)
  \/ \E frame \in BoundFrames : DecSetLowerFrame(frame)
  \/ \E frame \in BoundFrames : DecSetUpperFrame(frame)
  \/ \E k \in ReadSizes : DecRead(k)

SpecBounds == InitArchive /\ [][NextBounds]_vars

(***************************************************************************)
(* Specification of the prefixes: WriteWithPrefix on the encoder,          *)
(* ReadWithPrefix on the decoder                                           *)
(***************************************************************************)
Prefixes == {NoPrefix, [present |-> TRUE, bytes |-> << 7 >>]}

\* prefixes given to ReadWithPrefix: none, a byte that starts no frame,
\* and the bytes of a frame
ReadPrefixes ==
  {NoPrefix, [present |-> TRUE, bytes |-> << 7 >>],
   [present |-> TRUE, bytes |-> EncodeAll(SpeedDefault, << 7 >>)]}

NextPrefix ==
  \/ \E n \in 0..MaxPayload, prefix \in Prefixes : EncWrite(n, prefix)
  \/ EncWriteStep
  \/ EncEndFrame
  \/ EncFinish(FormatFoot)
  \/ DecNew(DefaultDecoderOptions)
  \/ \E k \in ReadSizes, prefix \in ReadPrefixes : DecReadWithPrefix(k, prefix)

SpecPrefix == InitArchive /\ [][NextPrefix]_vars

(***************************************************************************)
(* Specification of Write under every EncoderOptions value: the policies,  *)
(* and options whose FramePolicy is left unset.  A Write call in progress  *)
(* goes on with its loop.                                                  *)
(***************************************************************************)
\* EncoderOptions{} with FramePolicy nil: the type switches take the
\* default case
NoFramePolicy == [kind |-> "nil", Size |-> 0]

InitWrite ==
  /\ TableIdle
  /\ SerIdle
  /\ enc \in {NewEncoder(policy) : policy \in Policies \cup {NoFramePolicy}}
  /\ w = SoundWriter
  /\ call = NoWrite
  /\ encRet = NoRet
  /\ fin = NotFinished
  /\ payload = << >>
  /\ hist = NoHist
  /\ DecIdle

NextWrite ==
  \/ \E n \in 0..MaxPayload : EncWrite(n, NoPrefix)
  \/ EncWriteStep
  \/ EncFinish(FormatFoot)
  \/ DecNew(DefaultDecoderOptions)
  \/ \E k \in ReadSizes : DecRead(k)

SpecWrite == InitWrite /\ [][NextWrite]_vars /\ WF_vars(EncWriteStep)

(***************************************************************************)
(* Specification of the frame cap: an encoder of narrow words, with        *)
(* policy sizes up to the largest word                                     *)
(***************************************************************************)
\* the narrow 1 << 32
CapWord == 8

\* total length of the input of an encoder of narrow words
CapPayload == 8

\* lengths of the inputs of Write
CapWrites == {1, 3, 7}

CapPolicies ==
  {CompressedFrameSize(n) : n \in {3, CapWord - 1}}
    \cup {UncompressedFrameSize(n) : n \in {3, CapWord - 1}}

InitCap ==
  /\ TableIdle
  /\ SerIdle
  /\ enc \in {[NewEncoder(policy) EXCEPT !.word = CapWord, !.Level = level] :
                policy \in CapPolicies, level \in {SpeedDefault, SpeedBestCompression}}
  /\ w = SoundWriter
  /\ call = NoWrite
  /\ encRet = NoRet
  /\ fin = NotFinished
  /\ payload = << >>
  /\ hist = NoHist
  /\ DecIdle

NextCap ==
  \/ \E n \in CapWrites : EncWriteUpTo(CapPayload, n, NoPrefix)
  \/ EncWriteStep
  \/ EncEndFrame
  \/ EncFinish(FormatFoot)

SpecCap == InitCap /\ [][NextCap]_vars

(***************************************************************************)
(* Specification of the encoder: Write, WriteWithPrefix, EndFrame and      *)
(* Finish calls on an encoder whose writer may fail                        *)
(***************************************************************************)
\* bytes a failing writer accepts before its failure
WriterSpaces == {0, 1, 4}

Writers == {SoundWriter} \cup {NewWriter(k, t) : k \in WriterSpaces, t \in BOOLEAN}

InitEncoder ==
  /\ TableIdle
  /\ SerIdle
  /\ enc \in {NewEncoder(policy) : policy \in Policies}
  /\ w \in Writers
  /\ call = NoWrite
  /\ encRet = NoRet
  /\ fin = NotFinished
  /\ payload = << >>
  /\ hist = NoHist
  /\ DecIdle

NextEncoder ==
  \/ \E n \in 0..MaxPayload, prefix \in Prefixes : EncWrite(n, prefix)
  \/ EncWriteStep
  \/ EncEndFrame
  \/ \E f \in {FormatFoot, FormatHead} : EncFinish(f)

SpecEncoder == InitEncoder /\ [][NextEncoder]_vars

(***************************************************************************)
(* What the specification says of a table: the successful calls and their  *)
(* running sums                                                            *)
(***************************************************************************)
IsOk(e) == e.err = NoErr

OkCalls == SelectSeq(log, IsOk)

RECURSIVE SumComp(_, _)
SumComp(calls, k) == IF k = 0 THEN 0 ELSE SumComp(calls, k - 1) + calls[k].c

RECURSIVE SumDecomp(_, _)
SumDecomp(calls, k) == IF k = 0 THEN 0 ELSE SumDecomp(calls, k - 1) + calls[k].d

\* cumulative_compressed[k] of a table that saw st.base calls (1, 1) and
\* then OkCalls
CumComp(k) == IF k <= st.base THEN k ELSE st.base + SumComp(OkCalls, k - st.base)

CumDecomp(k) == IF k <= st.base THEN k ELSE st.base + SumDecomp(OkCalls, k - st.base)

\* the entries the model keeps explicitly, and the first two
SampleIdx ==
  {k \in {0, 1} \cup ((st.base - 1)..(LenEntries(st) - 1)) : k >= 0 /\ k <= NumFrames(st)}

\* C8: after any sequence of successful LogFrame(c, d) calls on a new
\* table, entry 0 is (0, 0), both cumulative sequences are non-decreasing,
\* entry k holds the running sums of the first k (c, d) pairs, and
\* NumFrames is the number of calls.
C8_RunningSums ==
  /\ EntryAt(st, 0) = Entry(0, 0)
  /\ NumFrames(st) = st.base + Len(OkCalls)
  /\ \A k \in SampleIdx : EntryAt(st, k) = Entry(CumComp(k), CumDecomp(k))
  /\ \A k \in SampleIdx :
       k < NumFrames(st) =>
         /\ EntryAt(st, k).CompressedOffset <= EntryAt(st, k + 1).CompressedOffset
         /\ EntryAt(st, k).DecompressedOffset <= EntryAt(st, k + 1).DecompressedOffset

C8_Witness ==
  /\ st.base = 0
  /\ Len(OkCalls) = 3
  /\ NumFrames(st) = 3
  /\ st.entries[4] = Entry(301, 70002)

\* C9: LogFrame fails, with FrameIndexTooLarge, exactly when the table
\* already holds SEEKABLE_MAX_FRAMES frames; a failed call leaves the table
\* as it was; NumFrames never exceeds SEEKABLE_MAX_FRAMES.
C9_FailsIffFull ==
  /\ NumFrames(st) <= SEEKABLE_MAX_FRAMES
  /\ \A i \in 1..Len(log) :
       /\ log[i].err \in {NoErr, ErrFrameIndexTooLarge}
       /\ (log[i].err = ErrFrameIndexTooLarge) <=> (log[i].n = SEEKABLE_MAX_FRAMES)
       /\ (log[i].err # NoErr) => log[i].kept

C9_Witness ==
  /\ Len(log) >= 3
  /\ log[Len(log)].err = ErrFrameIndexTooLarge
  /\ log[Len(log)].n = SEEKABLE_MAX_FRAMES
  /\ NumFrames(st) = SEEKABLE_MAX_FRAMES

TooLarge == Fail(ErrFrameIndexTooLarge)

\* C10: for an index i < N the start queries return cumulative[i], the end
\* queries cumulative[i+1], the size queries end - start, and the end of
\* frame i is the start of frame i+1 when i+1 < N; for i >= N each of the
\* six queries returns FrameIndexTooLarge.
C10_FrameQueries ==
  q # NoQuery =>
    IF q.index >= 0 /\ q.index < NumFrames(st)
    THEN /\ q.startComp = Val(CumComp(q.index))
         /\ q.startDecomp = Val(CumDecomp(q.index))
         /\ q.endComp = Val(CumComp(q.index + 1))
         /\ q.endDecomp = Val(CumDecomp(q.index + 1))
         /\ q.sizeComp = Val(q.endComp.val - q.startComp.val)
         /\ q.sizeDecomp = Val(q.endDecomp.val - q.startDecomp.val)
         /\ (q.index + 1 < NumFrames(st)) =>
               /\ q.nextStartComp = q.endComp
               /\ q.nextStartDecomp = q.endDecomp
    ELSE /\ q.startComp = TooLarge /\ q.startDecomp = TooLarge
         /\ q.endComp = TooLarge /\ q.endDecomp = TooLarge
         /\ q.sizeComp = TooLarge /\ q.sizeDecomp = TooLarge

C10_Witness ==
  /\ q # NoQuery
  /\ q.index = 1
  /\ NumFrames(st) = 3
  /\ q.sizeComp = Val(300)
  /\ q.sizeDecomp = Val(70000)
  /\ q.startComp = Val(1)

\* the largest element of a non-empty set of naturals
SetMax(S) == CHOOSE m \in S : \A x \in S : x <= m

\* per-frame decompressed sizes of the table: 1 for each of the st.base
\* leading frames, then those of OkCalls
DecompSizesOf == {OkCalls[k].d : k \in 1..Len(OkCalls)} \cup (IF st.base > 0 THEN {1} ELSE {})

\* C13: MaxFrameSizeDecomp returns the maximum over all frames of the
\* per-frame decompressed size, and 0 for a table with no frames.
C13_MaxFrameSize ==
  q # NoQuery => q.maxSizeDecomp = SetMax(DecompSizesOf \cup {0})

C13_Witness ==
  /\ q # NoQuery
  /\ st.base = 0
  /\ Len(OkCalls) = 3
  /\ OkCalls[1].d = 2 /\ OkCalls[2].d = 70000 /\ OkCalls[3].d = 0
  /\ q.maxSizeDecomp = 70000

\* the total decompressed size
TotalDecomp == CumDecomp(NumFrames(st))

\* C11: on a table with at least one frame, findFrameAtOffset returns, for
\* an offset below the total decompressed size, the unique i with
\* cumulative_decompressed[i] <= offset < cumulative_decompressed[i+1], and
\* N-1 for an offset at or past the total.
C11_FindFrame ==
  (look.done /\ NumFrames(st) >= 1) =>
    IF look.offset < TotalDecomp
    THEN /\ look.frame >= 0
         /\ look.frame < NumFrames(st)
         /\ CumDecomp(look.frame) <= look.offset
         /\ look.offset < CumDecomp(look.frame + 1)
    ELSE look.frame = NumFrames(st) - 1

\* every frame holds at least one decompressed byte
NoEmptyFrame == \A k \in 1..Len(OkCalls) : OkCalls[k].d > 0

\* the statement of C11 on tables without empty frames
FindFrameNoEmptyFrame == NoEmptyFrame => C11_FindFrame

\* the frames i < N whose start is the offset looked up
BoundaryIdx ==
  {i \in SampleIdx \cup {look.offset} : i < NumFrames(st) /\ CumDecomp(i) = look.offset}

\* C12 as stated: for every table built by LogFrame calls, sizes of 0
\* included, and every i < N, findFrameAtOffset(cumulative_decompressed[i])
\* is i.
C12_Boundaries ==
  look.done => \A i \in BoundaryIdx : look.frame = i

\* no frame before the last one is empty
NoInnerEmptyFrame == \A k \in 1..(Len(OkCalls) - 1) : OkCalls[k].d > 0

\* C12, amended: for every table in which no frame before the last has
\* decompressed size 0, and every i < N,
\* findFrameAtOffset(cumulative_decompressed[i]) is i.  (An empty frame
\* i < N-1 starts where frame i+1 starts, so no result can be both.)
C12_BoundariesDistinct ==
  (look.done /\ NoInnerEmptyFrame) => \A i \in BoundaryIdx : look.frame = i

C12_Witness ==
  /\ look.done
  /\ st.base = 0
  /\ Len(OkCalls) = 3
  /\ OkCalls[1].d = 2 /\ OkCalls[2].d = 70000 /\ OkCalls[3].d = 0
  /\ look.offset = 70002
  /\ look.frame = 2

(***************************************************************************)
(* What the specification says of the serialized image                     *)
(***************************************************************************)
\* the image one WriteTo call with a buffer of EncodedLen bytes produces
OneShot(t, format) ==
  WriteTo(NewSerializer(t, format), EncodedLen(NewSerializer(t, format))).bytes

SpecEnvelope(n) == PutUint32(SKIPPABLE_MAGIC_NUMBER) \o PutUint32(9 + 17 * n)

SpecFooter(n) == PutUint32(n) \o << 0 >> \o SEEKABLE_MAGIC_LE

SpecSlot(t, i) ==
  PutUint32(EntryAt(t, i + 1).CompressedOffset - EntryAt(t, i).CompressedOffset)
    \o PutUint32(EntryAt(t, i + 1).DecompressedOffset - EntryAt(t, i).DecompressedOffset)
    \o Zeros(9)

RECURSIVE SpecSlots(_, _)
SpecSlots(t, n) == IF n = 0 THEN << >> ELSE SpecSlots(t, n - 1) \o SpecSlot(t, n - 1)

SpecImage(t, format) ==
  IF format = FormatFoot
  THEN SpecEnvelope(NumFrames(t)) \o SpecSlots(t, NumFrames(t)) \o SpecFooter(NumFrames(t))
  ELSE SpecEnvelope(NumFrames(t)) \o SpecFooter(NumFrames(t)) \o SpecSlots(t, NumFrames(t))

Serialized == SerDone /\ nmut = 0

\* C5: the complete image of a table of N frames is 8 + 9 + 17*N bytes:
\* the skippable magic, content_size 9 + 17*N, then slots and footer (Foot)
\* or footer and slots (Head), the footer being [N, 0, seekable magic] and
\* slot i holding the sizes of frame i.
C5_Layout ==
  Serialized =>
    /\ Len(image) = 8 + 9 + 17 * NumFrames(st)
    /\ EncodedLen(ser) = Len(image)
    /\ image = SpecImage(st, ser.format)

C5_Witness ==
  /\ Serialized
  /\ ser.format = FormatHead
  /\ NumFrames(st) = 2
  /\ st.entries[3] = Entry(301, 70002)

\* C6: with any scratch-buffer sizes k >= 1, every WriteTo call writes
\* min(k, EncodedLen - cursor) bytes (so the calls end), the cursor stays
\* within EncodedLen, and the chunks concatenate to the image one call
\* with a buffer of EncodedLen bytes produces.
C6_Chunked ==
  (ser # NoSer /\ nmut = 0) =>
    /\ ser.writePos <= EncodedLen(ser)
    /\ ser.writePos = Len(image)
    /\ last # NoCall => last.n = Min(last.k, EncodedLen(ser) - last.before)
    /\ image = SubSeq(OneShot(st, ser.format), 1, ser.writePos)
    /\ SerDone => image = OneShot(st, ser.format)

C6_Witness ==
  /\ Serialized
  /\ NumFrames(st) = 2
  /\ last.k = 5
  /\ last.before = EncodedLen(ser)
  /\ Len(image) = 51

\* C3 (as claimed): parsing the image of a table, in either format, succeeds
\* and returns a table with the same frames.
C3_RoundTrip ==
  (Serialized /\ parsed # NoParse) =>
    /\ parsed.err = NoErr
    /\ NumFrames(parsed.st) = NumFrames(st)
    /\ \A i \in 0..(NumFrames(st) - 1) :
         /\ FrameSizeComp(parsed.st, i) = FrameSizeComp(st, i)
         /\ FrameSizeDecomp(parsed.st, i) = FrameSizeDecomp(st, i)

(***************************************************************************)
(* What the specification says of the parser's errors                      *)
(***************************************************************************)
Tail9(d) == SubSeq(d, Len(d) - 8, Len(d))

DeclaredFrames(d) == Uint32(SubSeq(Tail9(d), 1, 4))

ExpectedErr(d) ==
  IF Len(d) < 9 THEN ErrCorrupted
  ELSE IF SubSeq(Tail9(d), 6, 9) # << 177, 234, 146, 143 >> THEN ErrInvalidMagic
  ELSE IF DeclaredFrames(d) > 134217728 THEN ErrFrameIndexTooLarge
  ELSE IF (Len(d) - 17) % 17 # 0 \/ (Len(d) - 17) \div 17 # DeclaredFrames(d) THEN ErrCorrupted
  ELSE IF SubSeq(d, 1, 4) # << 95, 42, 77, 24 >> THEN ErrInvalidMagic
  ELSE NoErr

\* C7: the parser's errors in order of precedence: fewer than 9 bytes is
\* Corrupted; a wrong seekable magic in the last 9 bytes InvalidMagic; a
\* frame count above 2^27 FrameIndexTooLarge; a length other than
\* 8 + 9 + 17*N Corrupted; a wrong skippable magic InvalidMagic; and an
\* error comes with no table.
C7_ParseErrors ==
  parsed # NoParse =>
    /\ ExpectedErr(image) # NoErr => parsed.err = ExpectedErr(image)
    /\ parsed.err # NoErr => parsed.st = NoTable

C7_Witness ==
  /\ parsed # NoParse
  /\ nmut = 2
  /\ parsed.err = ErrFrameIndexTooLarge
  /\ image[1] # 95
  /\ Len(image) > 17

(***************************************************************************)
(* What the specification says of an archive                               *)
(***************************************************************************)
IsPrefix(a, b) == Len(a) <= Len(b) /\ a = SubSeq(b, 1, Len(a))

From(b, t) == SubSeq(b, t + 1, Len(b))

ReadOk == decRet.op = "read" => (decRet.err = NoErr /\ decRet.n > 0) \/ decRet.err = ErrEOF

\* C1 (as claimed): the archive of any input S, split in any way over
\* Write calls under any policy, opens with NewDecoder and reads back as
\* exactly S followed by end-of-stream, with no error.
C1_RoundTrip ==
  (fin = FormatFoot /\ decRet # NoRet /\ ~sought.done) =>
    /\ dec # NoDec
    /\ ReadOk
    /\ IsPrefix(got, payload)
    /\ (decRet.op = "read" /\ decRet.err = ErrEOF) => got = payload

\* the same for an input of at least one byte
RoundTripNonEmpty == payload # << >> => C1_RoundTrip

\* C2 (as claimed): a Seek whose target t lies in [0, |S|] returns t and
\* no error, and the Reads after it deliver exactly S[t..] and then
\* end-of-stream.
C2_Seek ==
  (dec # NoDec /\ sought.done /\ sought.valid) =>
    /\ decRet.op = "seek" => (decRet.err = NoErr /\ decRet.n = sought.target)
    /\ ReadOk
    /\ dec.totalRead = sought.target + Len(got)
    /\ IsPrefix(got, From(payload, sought.target))
    /\ (decRet.op = "read" /\ decRet.err = ErrEOF) => got = From(payload, sought.target)

\* the same for an input of at least one byte
SeekNonEmpty == payload # << >> => C2_Seek

\* C4 (as claimed): the archive of at least one frame, finished in either
\* format, is accepted by NewDecoder, which loads the encoder's table.
C4_FinishWithFormat ==
  (fin # NotFinished /\ NumFrames(enc.seekTable) >= 1 /\ decRet # NoRet) =>
    /\ dec # NoDec
    /\ dec.seekTable = enc.seekTable

\* the same for the Foot format
AcceptsFoot == fin = FormatFoot => C4_FinishWithFormat

(***************************************************************************)
(* What the specification says of the encoder                              *)
(***************************************************************************)
\* the encoder's table: its cumulative offsets and per-frame sizes
EncFrames == NumFrames(enc.seekTable)

EncCum(i) == enc.seekTable.entries[i + 1]

EncSizeDecomp(i) == EncCum(i + 1).DecompressedOffset - EncCum(i).DecompressedOffset

\* payload bytes the Write calls have accepted
Accepted == Len(payload) - Len(call.p)

\* frame bytes the writer has received
FrameBytes == Len(w.bytes) - hist.tableBytes

\* C14: with UncompressedFrameSize{s}, s >= 1, no EndFrame call, L bytes
\* written in any split and then Finish, none of the calls failing:
\* NumFrames is ceil(L/s), every frame but the last holds s decompressed
\* bytes and the last L - s*(N-1).
C14_Partition ==
  (/\ fin # NotFinished
   /\ ~hist.explicitEnd
   /\ ~hist.failed
   /\ enc.FramePolicy.kind = "UncompressedFrameSize"
   /\ enc.FramePolicy.Size >= 1) =>
    /\ EncFrames = (Len(payload) + enc.FramePolicy.Size - 1) \div enc.FramePolicy.Size
    /\ \A i \in 0..(EncFrames - 2) : EncSizeDecomp(i) = enc.FramePolicy.Size
    /\ EncFrames >= 1 =>
         EncSizeDecomp(EncFrames - 1) = Len(payload) - enc.FramePolicy.Size * (EncFrames - 1)

C14_Witness ==
  /\ fin # NotFinished
  /\ ~hist.explicitEnd
  /\ ~hist.failed
  /\ enc.FramePolicy = UncompressedFrameSize(2)
  /\ Len(payload) = 3
  /\ EncFrames = 2
  /\ EncSizeDecomp(1) = 1

\* an EndFrame call that returned without error
EndFrameReturned == EncEndFrame /\ encRet'.err = NoErr

C16_EndFrameBeforeFinish ==
  [][EndFrameReturned =>
       \A f \in {FormatFoot, FormatHead} :
          FinishWithFormat(enc', w', f) = FinishWithFormat(enc, w, f)]_vars

C16_Witness ==
  /\ encRet = [op |-> "endframe", n |-> 0, err |-> NoErr]
  /\ enc.FramePolicy = CompressedFrameSize(4)
  /\ Len(payload) = 1
  /\ EncFrames = 1
  /\ Len(w.bytes) = 3

C18_WrittenCompressed ==
  /\ enc.writtenTotal = FrameBytes
  /\ enc.writtenTotal = EncCum(EncFrames).CompressedOffset

\* the statement of C18 while no call has failed
WrittenCompressedNoFailure == ~hist.failed => C18_WrittenCompressed

\* C19: once a call has failed, the count returned by a failed Write is
\* the number of bytes accepted, and the frame bytes in the writer's output
\* are exactly the frames logged in the table.
C19_FailureSemantics ==
  hist.failed =>
    /\ EncCum(EncFrames).DecompressedOffset + enc.frameDSize = Accepted
    /\ FrameBytes = EncCum(EncFrames).CompressedOffset

\* the part of C19 about the count returned
FailedWriteCount ==
  hist.failed => EncCum(EncFrames).DecompressedOffset + enc.frameDSize = Accepted

(***************************************************************************)
(* What the specification says of a decoder restricted to a frame range    *)
(***************************************************************************)
\* S[cumulative_decompressed[l] .. cumulative_decompressed[u+1])
RangeBytes(l, u) ==
  SubSeq(payload, EncCum(l).DecompressedOffset + 1, EncCum(u + 1).DecompressedOffset)

\* C20: a decoder constructed with LowerFrame = L and UpperFrame = U,
\* 0 <= L <= U <= N-1 and U >= 1, and read from construction to the end
\* of the stream, delivers exactly the decompressed bytes of the frames
\* L..U and then end-of-stream.
C20_FrameRange ==
  (/\ dec # NoDec
   /\ ~sought.done
   /\ dec.options.LowerFrame <= dec.options.UpperFrame
   /\ dec.options.UpperFrame >= 1
   /\ dec.options.UpperFrame <= EncFrames - 1) =>
    /\ ReadOk
    /\ IsPrefix(got, RangeBytes(dec.options.LowerFrame, dec.options.UpperFrame))
    /\ (decRet.op = "read" /\ decRet.err = ErrEOF) =>
          got = RangeBytes(dec.options.LowerFrame, dec.options.UpperFrame)

C20_Witness ==
  /\ dec # NoDec
  /\ dec.options.LowerFrame = 1
  /\ dec.options.UpperFrame = 2
  /\ EncFrames = 4
  /\ decRet = [op |-> "read", n |-> 0, err |-> ErrEOF]
  /\ got = << Data(2), Data(3) >>

(***************************************************************************)
(* What the specification says of a decoder just constructed               *)
(***************************************************************************)
JustOpened == decRet.op = "new" /\ dec # NoDec

\* C21 (as claimed): after construction with the options LowerFrame = L
\* and UpperFrame = U on a table of N frames, the decoder's upper bound is
\* U if L <= U <= N-1 and N-1 otherwise.
C21_UpperBound ==
  JustOpened =>
    dec.upperFrame = IF /\ dec.options.LowerFrame <= dec.options.UpperFrame
                        /\ dec.options.UpperFrame <= EncFrames - 1
                     THEN dec.options.UpperFrame
                     ELSE EncFrames - 1

\* the same for options with 1 <= U and L <= U
UpperBoundOrdered ==
  (dec # NoDec /\ 1 <= dec.options.UpperFrame
               /\ dec.options.LowerFrame <= dec.options.UpperFrame) => C21_UpperBound

\* C22 (as claimed): immediately after construction with LowerFrame = L,
\* L < N, the source is at the compressed start of frame L, the residual
\* buffer is empty, and the logical cursor totalRead is the decompressed
\* start of frame L.
C22_Cursor ==
  (JustOpened /\ dec.options.LowerFrame < EncFrames) =>
    /\ srcPos.pos = EncCum(dec.options.LowerFrame).CompressedOffset
    /\ dec.decompressed = << >>
    /\ dec.totalRead = EncCum(dec.options.LowerFrame).DecompressedOffset

\* the parts of C22 about the source and the residual buffer
CursorSource ==
  (JustOpened /\ dec.options.LowerFrame < EncFrames) =>
    /\ srcPos.pos = EncCum(dec.options.LowerFrame).CompressedOffset
    /\ dec.decompressed = << >>

(***************************************************************************)
(* What the specification says of the end of the stream                    *)
(***************************************************************************)
ReadStep == \E k \in ReadSizes : DecRead(k)

\* C25: a Read that hits the end returns the bytes it has, without error
\* if there are any and with end-of-stream if not; every Read after a Read
\* that observed the end returns 0 bytes and end-of-stream, makes no Read
\* or Seek call on the source and leaves the decoder as it is.
C25_StickyEOF ==
  [][ReadStep =>
       /\ (decRet.op = "read" /\ decRet.err = ErrEOF) => dec.eofReached
       /\ (dec'.eofReached /\ ~dec.eofReached) =>
            decRet'.err = (IF decRet'.n > 0 THEN NoErr ELSE ErrEOF)
       /\ dec.eofReached =>
            /\ decRet' = [op |-> "read", n |-> 0, err |-> ErrEOF]
            /\ srcPos' = Source(srcPos.pos)
            /\ dec' = dec
            /\ got' = got]_vars

C25_Witness ==
  /\ dec # NoDec
  /\ dec.eofReached
  /\ decRet = [op |-> "read", n |-> 0, err |-> ErrEOF]
  /\ srcPos.reads = 0 /\ srcPos.seeks = 0
  /\ Len(got) = 3
  /\ dec.options.LowerFrame = 1

(***************************************************************************)
(* What the specification says of the frame window                         *)
(***************************************************************************)
\* byte b of the input lies in one of the frames l..u
InFrames(b, l, u) ==
  /\ EncCum(l).DecompressedOffset < b - Data(0)
  /\ b - Data(0) <= EncCum(u + 1).DecompressedOffset

\* C24 (as claimed): whatever SetLowerFrame and SetUpperFrame calls were
\* made on a decoder over N >= 1 frames, both bounds lie in [0, N-1], and
\* the bytes read since the last of these calls come from the frames
\* lowerFrame..upperFrame.
C24_Window ==
  (dec # NoDec /\ EncFrames >= 1) =>
    /\ dec.lowerFrame \in 0..(EncFrames - 1)
    /\ dec.upperFrame \in 0..(EncFrames - 1)
    /\ \A j \in 1..Len(got) : InFrames(got[j], dec.lowerFrame, dec.upperFrame)

\* the part of C24 about the upper bound
UpperWithinTable ==
  (dec # NoDec /\ EncFrames >= 1) => dec.upperFrame \in 0..(EncFrames - 1)

(***************************************************************************)
(* What the specification says of the table load                           *)
(***************************************************************************)
\* the size of the table the last nine bytes of d declare
DeclaredSize(d) ==
  SKIPPABLE_HEADER_SIZE + SEEK_TABLE_FOOTER_SIZE
    + Min(DeclaredFrames(d), WideFrames) * SIZE_PER_FRAME

\* a step of the load from the tail of d fails
TailLoadFails(d) ==
  \/ Len(d) < SEEK_TABLE_FOOTER_SIZE
  \/ SubSeq(Tail9(d), 6, 9) # << 177, 234, 146, 143 >>
  \/ DeclaredFrames(d) > 134217728
  \/ Len(d) < DeclaredSize(d)
  \/ ExpectedErr(SubSeq(d, Len(d) - DeclaredSize(d) + 1, Len(d))) # NoErr

\* C23: without a table in the options NewDecoder returns no decoder and
\* the error "no seek table found" whenever a step of the load from the
\* tail of the source fails; with a table in the options it uses that
\* table and makes no Read call on the source.
C23_NoSeekTable ==
  /\ decRet.op = "new" =>
       IF TailLoadFails(w.bytes)
       THEN dec = NoDec /\ decRet.err = ErrNoSeekTable
       ELSE dec # NoDec /\ decRet.err = NoErr
  /\ decRet.op = "newWithTable" =>
       /\ decRet.err = NoErr
       /\ dec # NoDec
       /\ dec.seekTable = dec.options.SeekTable
       /\ srcPos.reads = 0

C23_Witness ==
  /\ decRet = [op |-> "new", n |-> 0, err |-> ErrNoSeekTable]
  /\ dec = NoDec
  /\ nmut = 1
  /\ Len(w.bytes) = 3 + 17 + 17
  /\ SubSeq(Tail9(w.bytes), 6, 9) = << 177, 234, 146, 143 >>

(***************************************************************************)
(* What the specification says of the prefixes                             *)
(***************************************************************************)
\* ReadWithPrefix(buf, prefix) and Read(buf) return the same from the
\* present state
SameAsRead(k, prefix) ==
  LET same(primed, plain) ==
        primed.bytes = plain.bytes /\ primed.ret = plain.ret /\ primed.err = plain.err
  IN same(ReadWithPrefix(dec, w.bytes, Source(srcPos.pos), k, prefix),
          Read(dec, w.bytes, Source(srcPos.pos), k))

\* C26 (as claimed): on an archive encoded without any prefix,
\* ReadWithPrefix with any non-empty prefix returns what Read would return.
C26_PrefixTolerance ==
  (dec # NoDec /\ ~hist.prefixed) =>
    \A k \in ReadSizes, prefix \in ReadPrefixes \ {NoPrefix} : SameAsRead(k, prefix)

\* the same for a prefix that, put before a frame, does not decode
PrefixToleranceUndecodable ==
  (dec # NoDec /\ ~hist.prefixed) =>
    \A k \in ReadSizes : SameAsRead(k, [present |-> TRUE, bytes |-> << 7 >>])

\* C29 (as claimed): for an archive produced by any Write, WriteWithPrefix,
\* EndFrame and Finish calls, the decoder yields for each frame as many
\* bytes as the table records, so the cursor after whole frames is their
\* cumulative decompressed size, and the decoded stream is the payload
\* without any prefix byte.
C29_NoPollution ==
  (dec # NoDec /\ ~sought.primed) =>
    /\ dec.totalRead + Len(dec.decompressed)
         = EncCum(Min(dec.currentFrame, EncFrames)).DecompressedOffset
    /\ IsPrefix(got, payload)
    /\ (decRet.op = "read" /\ decRet.err = ErrEOF) => got = payload

\* the same for an archive written without any prefix
NoPollutionUnprefixed == ~hist.prefixed => C29_NoPollution

\* a WriteWithPrefix call returns without error
WriteReturned == call.active /\ ~call'.active /\ encRet'.err = NoErr

\* the frame as the next chunk of the call in progress finds it, after the
\* EndFrame of a full frame
ChunkFrame ==
  IF remainingFrameSize(enc) = 0 THEN EndFrame(enc, w).e ELSE enc

\* an iteration of WriteWithPrefix that puts the prefix before its chunk
PrefixedChunk ==
  /\ EncWriteStep
  /\ Len(call.p) > 0
  /\ call.prefix.present
  /\ enc'.frameBuffer # enc.frameBuffer
  /\ ChunkFrame.frameDSize = 0

\* C27 (as claimed): a WriteWithPrefix call that succeeds returns len(p);
\* the prefix goes only before a chunk that is the first of its frame; and
\* the prefix is not counted, so that the table's total decompressed size
\* after Finish is the length of the payload.
C27_PrefixAccounting ==
  /\ [][WriteReturned => encRet'.n = call.len]_vars
  /\ [][PrefixedChunk => ChunkFrame.frameBuffer = << >>]_vars
  /\ []((fin # NotFinished /\ ~hist.failed) =>
          EncCum(EncFrames).DecompressedOffset = Len(payload))

\* the same under a policy of size 1 or more
PrefixAccountingPositive ==
  /\ [][WriteReturned => encRet'.n = call.len]_vars
  /\ [][(PrefixedChunk /\ enc.FramePolicy.Size >= 1) => ChunkFrame.frameBuffer = << >>]_vars
  /\ []((fin # NotFinished /\ ~hist.failed) =>
          EncCum(EncFrames).DecompressedOffset = Len(payload))

(***************************************************************************)
(* What the specification says of the termination of Write                 *)
(***************************************************************************)
\* C28 (as claimed): under every EncoderOptions value a Write of a
\* non-empty input returns, it returns len(input), and the archive after
\* Finish decodes to the input.
C28_WriteTerminates ==
  /\ (call.active /\ call.len > 0) ~> ~call.active
  /\ [][(WriteReturned /\ call.len > 0) => encRet'.n = call.len]_vars
  /\ [](payload # << >> => C1_RoundTrip)

\* the same under a policy of size 1 or more
WriteTerminatesPositive ==
  /\ (call.active /\ call.len > 0 /\ enc.FramePolicy.Size >= 1) ~> ~call.active
  /\ [][(WriteReturned /\ call.len > 0) => encRet'.n = call.len]_vars
  /\ [](payload # << >> => C1_RoundTrip)

(***************************************************************************)
(* What the specification says of the frame cap                            *)
(***************************************************************************)
\* C30 (as claimed): the decompressed accumulator of the open frame never
\* exceeds the largest 32-bit value, and the sizes recorded in the table
\* are the true sizes of the frames: their sums are the frame bytes
\* written and the payload bytes consumed by the closed frames.
C30_SizeFidelity ==
  /\ enc.frameDSize <= MAX_FRAME_SIZE(enc) - 1
  /\ EncCum(EncFrames).CompressedOffset = FrameBytes
  /\ EncCum(EncFrames).DecompressedOffset = Accepted - enc.frameDSize

\* the parts of C30 about the decompressed sizes, which hold of an encoder
\* whose frames are not shorter than their content
DecompressedFidelity ==
  enc.Level = SpeedDefault =>
  /\ enc.frameDSize <= MAX_FRAME_SIZE(enc) - 1
     /\ EncCum(EncFrames).DecompressedOffset = Accepted - enc.frameDSize

(***************************************************************************)
(* What the specification says of the threshold of the policy              *)
(***************************************************************************)
\* the size of the open frame that the policy measures
Measured(e) ==
  IF e.FramePolicy.kind = "CompressedFrameSize" THEN e.frameCSize ELSE e.frameDSize

\* an iteration of Write that closes a frame
ClosedByWrite == EncWriteStep /\ EncFrames' > EncFrames

\* the decompressed bytes of the frame that the step closes
ClosedDSize == (Accepted' - enc'.frameDSize) - (Accepted - enc.frameDSize)

\* the size, as the policy measures it, of the frame that the step closes
ClosedMeasured ==
  IF enc.FramePolicy.kind = "CompressedFrameSize"
  THEN FrameBytes' - FrameBytes
  ELSE ClosedDSize

\* between the chunks of Write, and so after Write returns, the open frame
\* is below the size of the policy
OpenBelowThreshold ==
  (enc.FramePolicy.Size >= 1 /\ ~hist.failed) => Measured(enc) < enc.FramePolicy.Size

\* C31 (as claimed): with a policy of size >= 1 a frame is closed right
\* after the chunk that makes its measured size reach the size of the
\* policy, so that the open frame is below the size after every chunk and
\* after Write returns; and a frame is never closed by Write before that
\* chunk: every frame that Write closes has a measured size >= the size.
C31_PolicyThreshold ==
  /\ []OpenBelowThreshold
  /\ [][(ClosedByWrite /\ enc.FramePolicy.Size >= 1) =>
          ClosedMeasured >= enc.FramePolicy.Size]_vars

\* C31 (amended): the same, but a frame that Write closes has a measured
\* size >= the size of the policy or MAX_FRAME_SIZE decompressed bytes.
PolicyThresholdOrCap ==
  /\ []OpenBelowThreshold
  /\ [][(ClosedByWrite /\ enc.FramePolicy.Size >= 1) =>
          \/ ClosedMeasured >= enc.FramePolicy.Size
          \/ ClosedDSize >= MAX_FRAME_SIZE(enc)]_vars

\* Write has returned, frames were closed by the policy alone, and the
\* open frame holds a chunk
C31_Witness ==
  /\ ~call.active
  /\ encRet.op = "write"
  /\ encRet.err = NoErr
  /\ ~hist.explicitEnd
  /\ fin = NotFinished
  /\ enc.FramePolicy.kind = "CompressedFrameSize"
  /\ EncFrames >= 2
  /\ Measured(enc) > 0

(***************************************************************************)
(* Specification of damaged archives: a byte of a frame is overwritten     *)
(* before the archive is opened, then the archive is read                  *)
(***************************************************************************)
\* a byte that is no magic number, no length and no content of a frame
BadByte == 0

Damaged == \E i \in 1..FrameBytes : w.bytes[i] = BadByte

\* the medium overwrites byte i of the frames of a finished archive
Damage(i) ==
  /\ fin # NotFinished
  /\ decRet = NoRet
  /\ ~Damaged
  /\ i \in 1..FrameBytes
  /\ w' = [w EXCEPT !.bytes[i] = BadByte]
  /\ UNCHANGED << enc, call, encRet, fin, payload, hist >>
  /\ UNCHANGED << tableVars, serVars, decVars >>

NextDamage ==
  \/ \E n \in 0..MaxPayload : EncWrite(n, NoPrefix)
  \/ EncWriteStep
  \/ EncFinish(FormatFoot)
  \/ \E i \in 1..(3 * MaxPayload) : Damage(i)
  \/ DecNew(DefaultDecoderOptions)
  \/ \E k \in ReadSizes : DecRead(k)
  \/ \E offset \in 0..MaxPayload : DecSeek(offset, SeekStart)

SpecDamage == InitArchive /\ [][NextDamage]_vars

(***************************************************************************)
(* What the specification says of a frame that cannot be decoded           *)
(***************************************************************************)
\* the last operation was a Read that failed at the frame dec.currentFrame
ReadFailed == decRet.op = "read" /\ decRet.err \notin {NoErr, ErrEOF}

\* the Read of this step
ReadAction == \E k \in ReadSizes : DecRead(k)

\* the bytes this step delivers
Delivered == SubSeq(got', Len(got) + 1, Len(got'))

\* the last byte of the input that is in the frames 0..i
LastByteOf(i) == Data(FrameEndDecomp(dec.seekTable, i).val)

\* C32 (as claimed): after a Read has failed at frame i, the source is at
\* the start of the current frame i, and a Read that follows with no Seek
\* in between delivers no byte of a frame j > i.
C32_NoSkipping ==
  /\ [](ReadFailed =>
          srcPos.pos = FrameStartComp(dec.seekTable, dec.currentFrame).val)
  /\ [][(ReadFailed /\ ReadAction) =>
          \A x \in 1..Len(Delivered) : Delivered[x] <= LastByteOf(dec.currentFrame)]_vars

\* a Read that fails has delivered the bytes of the frames before the bad
\* one and counted them, and leaves the residual buffer empty and the
\* end-of-stream flag clear
FailedReadCounts ==
  [][(ReadAction /\ decRet'.op = "read" /\ decRet'.err \notin {NoErr, ErrEOF}) =>
       /\ decRet'.n = Len(Delivered)
       /\ dec'.totalRead = dec.totalRead + Len(Delivered)
       /\ dec'.decompressed = << >>
       /\ ~dec'.eofReached]_vars

(***************************************************************************)
(* What the specification says of the position of the source               *)
(***************************************************************************)
\* the source is at the first compressed byte of the current frame
Aligned ==
  /\ dec.currentFrame \in 0..NumFrames(dec.seekTable)
  /\ srcPos.pos = dec.seekTable.entries[dec.currentFrame + 1].CompressedOffset

\* C33 (as claimed): after NewDecoder and after every Read, ReadWithPrefix,
\* Seek, SetLowerFrame and SetUpperFrame that succeeds, in any order, the
\* source is at the first compressed byte of the current frame.
C33_SourceAligned ==
  (dec # NoDec /\ decRet.err = NoErr) => Aligned

\* the same of every operation but SetLowerFrame: NewDecoder aligns the
\* source, and Read, Seek and SetUpperFrame, when they succeed, keep it
\* aligned
AlignedButSetLower ==
  [][(/\ dec = NoDec \/ Aligned
      /\ dec' # NoDec
      /\ decRet'.err = NoErr
      /\ decRet'.op # "setLowerFrame") => Aligned']_vars

(***************************************************************************)
(* What the specification says of the empty archive                        *)
(***************************************************************************)
\* the table of an archive finished with no input
EmptyFinished == fin # NotFinished /\ payload = << >>

\* Finish with no input writes a seek table of 17 bytes that parses as a
\* table of no frame, and nothing else
EmptyTableValid ==
  EmptyFinished =>
    /\ Len(w.bytes) = SKIPPABLE_HEADER_SIZE + SEEK_TABLE_FOOTER_SIZE
    /\ ParseSeekTable(w.bytes).err = NoErr
    /\ NumFrames(ParseSeekTable(w.bytes).st) = 0

\* a decoder on a table of no frame
OnEmptyTable == dec # NoDec /\ NumFrames(dec.seekTable) = 0

\* C34 (as claimed): an encoder finished without input writes a valid
\* seek table of 17 bytes with no frame; a decoder opened on a table of no
\* frame has frame bounds that did not wrap around, and its first Read
\* returns 0 bytes and end-of-stream, not an error.
C34_EmptyArchive ==
  /\ []EmptyTableValid
  /\ [](OnEmptyTable => (dec.lowerFrame >= 0 /\ dec.upperFrame >= 0))
  /\ [][(OnEmptyTable /\ JustOpened /\ ReadAction) =>
          (decRet'.n = 0 /\ decRet'.err = ErrEOF /\ Delivered = << >>)]_vars

(***************************************************************************)
(* Specification of Seek: the archive is opened on a range of frames, read *)
(* and sought with every whence, the invalid ones included                 *)
(***************************************************************************)
\* a whence that is none of io.SeekStart, io.SeekCurrent, io.SeekEnd
InvalidWhence == 3

Whences == {SeekStart, SeekCurrent, SeekEnd, InvalidWhence}

SeekOffsets == {-2, -1, 0, 1, 3, MaxPayload + 1}

\* the frame ranges: none, and the frames 1..2 and 1..1
SeekOptions ==
  {[SeekTable |-> NoTable, LowerFrame |-> r[1], UpperFrame |-> r[2]] :
     r \in {<< 0, 0 >>, << 1, 2 >>, << 1, 1 >>}}

NextSeek ==
  \/ \E n \in 0..MaxPayload : EncWrite(n, NoPrefix)
  \/ EncWriteStep
  \/ EncFinish(FormatFoot)
  \/ \E opts \in SeekOptions : DecNew(opts)
  \/ \E k \in ReadSizes : DecRead(k)
  \/ \E offset \in SeekOffsets, whence \in Whences : DecSeek(offset, whence)

SpecSeek == InitArchive /\ [][NextSeek]_vars

(***************************************************************************)
(* What the specification says of Seek                                     *)
(***************************************************************************)
\* a Seek with an invalid whence
SeekInvalid == \E offset \in SeekOffsets : DecSeek(offset, InvalidWhence)

\* C35: a Seek with a whence outside {Start, Current, End} returns an
\* error and leaves the decoder as it was: cursor, current frame, residual
\* buffer, end-of-stream flag and frame bounds; the source is neither read
\* nor moved.
C35_InvalidWhence ==
  [][SeekInvalid =>
       /\ decRet'.err # NoErr
       /\ decRet'.n = 0
       /\ dec' = dec
       /\ srcPos'.pos = srcPos.pos
       /\ srcPos'.seeks = 0
       /\ srcPos'.reads = 0]_vars

\* a Seek with an invalid whence has returned its error on a decoder that
\* holds residual bytes and has a cursor past 0
C35_Witness ==
  /\ decRet.op = "seek"
  /\ decRet.err = ErrWhence
  /\ dec.decompressed # << >>
  /\ dec.totalRead > 0

\* the last operation was a Seek with a valid whence
Sought == dec # NoDec /\ decRet.op = "seek" /\ decRet.err # ErrWhence

\* the first decompressed byte of the frame range
LowerStart == FrameStartDecomp(dec.seekTable, dec.lowerFrame).val

\* the end of the decompressed bytes of the frame range
UpperEnd == FrameEndDecomp(dec.seekTable, dec.upperFrame).val

\* C36 (as claimed): Seek puts the decoder on a frame of [lower, upper];
\* a target below the start of frame lower makes Seek return that start,
\* with the next Read starting at frame lower; a target beyond the end of
\* frame upper makes Seek return that end and no error; and after every
\* Seek the residual buffer holds no byte from before the Seek and the
\* end-of-stream flag is clear.
C36_SeekClamping ==
  Sought =>
    /\ ULe(dec.lowerFrame, dec.currentFrame)
    /\ ULe(dec.currentFrame, dec.upperFrame + 1)
    /\ sought.target < LowerStart =>
         /\ decRet.err = NoErr
         /\ decRet.n = LowerStart
         /\ dec.currentFrame = dec.lowerFrame
         /\ dec.decompressed = << >>
    /\ sought.target > UpperEnd =>
         /\ decRet.err = NoErr
         /\ decRet.n = UpperEnd
         /\ dec.totalRead = UpperEnd
    /\ IsPrefix(dec.decompressed, From(payload, dec.totalRead))
    /\ ~dec.eofReached

\* what holds of Seek on an archive of at least one frame: the decoder is
\* on a frame of the range; a target in [0, start of frame lower] gives
\* that start; a target within the range, its end included, is returned;
\* the residual buffer holds the bytes that follow the cursor; a Seek that
\* succeeds leaves the end-of-stream flag clear
SeekClampingWithin ==
  (Sought /\ payload # << >>) =>
    /\ ULe(dec.lowerFrame, dec.currentFrame)
    /\ ULe(dec.currentFrame, dec.upperFrame + 1)
    /\ (sought.target >= 0 /\ sought.target < LowerStart) =>
         /\ decRet.err = NoErr
         /\ decRet.n = LowerStart
         /\ dec.currentFrame = dec.lowerFrame
         /\ dec.decompressed = << >>
    /\ (sought.target >= LowerStart /\ sought.target <= UpperEnd) =>
         /\ decRet.err = NoErr
         /\ decRet.n = sought.target
         /\ dec.totalRead = sought.target
    /\ IsPrefix(dec.decompressed, From(payload, dec.totalRead))
    /\ decRet.err = NoErr => ~dec.eofReached

(***************************************************************************)
(* What the specification says of a Read that finds residual bytes         *)
(***************************************************************************)
\* a Read into a buffer of k bytes that finds r residual bytes, r >= 1
ResidueRead(k, r) == DecRead(k) /\ Len(dec.decompressed) = r /\ r >= 1

\* the step fetches no frame: the source is not read and the current
\* frame stays
NoFetch == srcPos'.reads = 0 /\ dec'.currentFrame = dec.currentFrame

TableLen ==
  SKIPPABLE_HEADER_SIZE + SEEK_TABLE_FOOTER_SIZE + SIZE_PER_FRAME * EncFrames

\* C38 (as claimed): whatever the writer does during Finish, the bytes of
\* the seek table in the output are none or the whole table.
C38_NoHalfTable == hist.tableBytes \in {0, TableLen}

\* when no call has failed, a Finish that returned has written the whole
\* table, and before it no byte of a table is written
TableWholeOnSuccess ==
  ~hist.failed => hist.tableBytes = (IF fin = NotFinished THEN 0 ELSE TableLen)

(***************************************************************************)
(* Specification of the encoder after Finish: Write, EndFrame and Finish   *)
(* are called in any order, also on an encoder that has finished           *)
(***************************************************************************)
\* bytes in the output beyond which Finish is not called again
MaxOutput == 40

\* no Write is in progress
Idle == ~call.active

FrozenPolicies == {CompressedFrameSize(1), UncompressedFrameSize(2)}

InitFrozen ==
  /\ TableIdle
  /\ SerIdle
  /\ enc \in {NewEncoder(policy) : policy \in FrozenPolicies}
  /\ w = SoundWriter
  /\ call = NoWrite
  /\ encRet = NoRet
  /\ fin = NotFinished
  /\ payload = << >>
  /\ hist = NoHist
  /\ DecIdle

NextFrozen ==
  \/ \E n \in 1..2 : EncWriteWhen(Idle, MaxPayload, n, NoPrefix)
  \/ EncWriteStep
  \/ EncEndFrameWhen(Idle)
  \/ EncFinishWhen(Idle /\ Len(w.bytes) <= MaxOutput, FormatFoot)

SpecFrozen == InitFrozen /\ [][NextFrozen]_vars

(***************************************************************************)
(* What the specification says of an encoder that has finished             *)
(***************************************************************************)
\* C39 (as claimed): once Finish has serialized the seek table, no
\* operation on the encoder changes the seek table or appends a byte to
\* the writer.
C39_Frozen ==
  [][fin # NotFinished => (enc'.seekTable = enc.seekTable /\ w'.bytes = w.bytes)]_vars

\* an EndFrame that follows Finish with no Write in between changes
\* nothing
FrozenEndFrame ==
  [][(fin # NotFinished /\ enc.frameDSize = 0 /\ EncEndFrameWhen(Idle)) =>
       (enc' = enc /\ w' = w /\ encRet'.err = NoErr)]_vars

====
